---- MODULE Spec2Model ----
(***************************************************************************)
(* Model of the communication and correlation layer of VCore               *)
(* (src/app/manager.py): the SerialWorker frame reader, the response       *)
(* queue, I2CManager.wait_response / send_command / select_device, and the *)
(* bridge behind the transport.                                           *)
(*                                                                         *)
(* Time is discrete.  One tick is half of the 0.01 s poll constant of      *)
(* wait_response, so that an instant strictly inside a poll interval       *)
(* exists.  Statements of the code take no time; only the blocking         *)
(* queue.get(timeout=0.01) and time.sleep(0.01) let time pass.             *)
(***************************************************************************)
EXTENDS Integers, Sequences, FiniteSets, TLC

VARIABLES
    now,             \* time.time(), in ticks
    response_queue,  \* I2CManager.response_queue, head = next element get() returns
    w,               \* per caller: the frame of its wait_response call
    nextId,          \* arrival number the Frame Reader gives its next message
    returned,        \* history: the messages wait_response calls returned, in order
    is_paused,       \* I2CManager.is_paused
    is_active,       \* I2CManager.is_active
    current_device,  \* I2CManager.current_device
    op,              \* the caller's operation on the manager, and where it is
    wire,            \* commands written to the transport the bridge has not handled
    sent,            \* history: every command written to the transport, in order
    serial_in,       \* bytes waiting in the transport (ser.in_waiting of them)
    buffer,          \* SerialWorker.buffer
    stream,          \* history: every byte the transport delivered, in order
    text,            \* history: every character appended to buffer, in order
    reads,           \* history: number of ser.read calls
    gd,              \* the frame of a get_devices call, with the history of its attempts
    devices,         \* I2CManager.devices
    ctor,            \* where I2CManager.__init__ is in _initialize
    bulk,            \* the frame of a get_measurements call and of its bulk_rw
    dec,             \* the frame of a decoder call, read_registers by read_registers
    mock,            \* the fields of MockSerial, with the history of its writes
    running,         \* I2CManager.running[0], the stop flag of the Frame Reader
    is_open,         \* ser.is_open
    lock,            \* I2CManager.lock: the thread that holds it, 0 when free
    snd,             \* per thread: the frame of its send_command call
    cl,              \* the frame of the close() call, with the history of its steps
    rd               \* where SerialWorker.run is in its loop

waitVars == <<now, response_queue, w, nextId, returned>>

sessVars == <<is_paused, is_active, current_device, op, wire, sent>>

readerVars == <<serial_in, buffer, stream, text, reads>>

enumVars == <<gd, devices, ctor>>

lifeVars == <<running, is_open, lock, snd, cl, rd>>

restVars == <<enumVars, bulk, dec, mock, lifeVars>>

vars == <<waitVars, sessVars, readerVars, restVars>>

-----------------------------------------------------------------------------
(* Bounds *)

MaxMsgs == 3      \* messages the Frame Reader enqueues in one behaviour
MaxTime == 18     \* last tick of the clock
MaxTimeout == 3   \* longest timeout (ticks) a caller passes to wait_response
MaxCalls == 3     \* wait_response calls of the single caller
MaxOps == 2       \* operations the caller starts on the manager
MaxStream == 5    \* bytes the transport delivers in one behaviour
MaxEnumCalls == 1 \* get_devices calls of the caller
MaxFaults == 1    \* read faults of a transport that is open
MaxLifeStream == 3 \* bytes the transport delivers while the reader's loop is followed
MaxFrameStream == 3 \* bytes the transport delivers while a wait_response call is followed
MaxFlagOps == 2     \* operations the one caller makes on the manager, close() apart
MaxFlushLines == 2  \* lines the transport delivers before a get_devices call
MaxDecCalls == 1  \* calls of the caller on a decoder
MaxFaultOps == 1  \* operations the caller starts on a transport whose writes may fail
MaxMockWrites == 2 \* commands written to the mock transport

(* Program constants *)

PollTicks == 2    \* the 0.01 s of queue.get(timeout=0.01) and time.sleep(0.01)

Actions == {"A", "B"}
Callers == {1, 2}
Timeouts == PollTicks..MaxTimeout

None == [id |-> 0, action |-> "None"]

\* the numbers of a snapshot that has not been decoded
NoNum == [voltage |-> 0, phases |-> 0, current |-> [num |-> 0, den |-> 1],
          power |-> [num |-> 0, den |-> 1], protections |-> <<>>]

-----------------------------------------------------------------------------
(* Sequence helpers *)

Range(s) == {s[i] : i \in 1..Len(s)}

\* position of the element with id n in s, 0 when absent
PosOf(s, n) == IF \E i \in 1..Len(s) : s[i].id = n
               THEN CHOOSE i \in 1..Len(s) : s[i].id = n
               ELSE 0

-----------------------------------------------------------------------------
(* I2CManager.wait_response *)

IdleFrame == [pc |-> "idle", action |-> "None", timeout |-> 0, start |-> 0,
              dl |-> 0, stored |-> <<>>, result |-> None, popped |-> <<>>,
              pushed |-> <<>>, aside_at |-> <<>>, ret |-> 0, calls |-> 0]

\* line 94-95: start = time.time(); stored_responses = []
WaitCall(c, a, t) ==
    /\ w[c].pc \in {"idle", "done"}
    /\ now + t + 2 * PollTicks - 1 <= MaxTime
    /\ w' = [w EXCEPT ![c] = [IdleFrame EXCEPT !.pc = "loop", !.action = a,
                                               !.timeout = t, !.start = now,
                                               !.calls = w[c].calls + 1]]
    /\ UNCHANGED <<now, response_queue, nextId, returned>>

\* faulty variant of TimeLeft: the deadline itself still counts as time left
TimeLeftInclusive(c) == now - w[c].start <= w[c].timeout

\* line 101: time.time() - start < timeout
TimeLeft(c) == now - w[c].start < w[c].timeout

\* line 101: while time.time() - start < timeout
LoopTest(c) ==
    /\ w[c].pc = "loop"
    /\ IF TimeLeft(c)
       THEN w' = [w EXCEPT ![c].pc = "get", ![c].dl = now + PollTicks]
       ELSE w' = [w EXCEPT ![c].pc = "requeue_timeout"]
    /\ UNCHANGED <<now, response_queue, nextId, returned>>

\* faulty variant of Matches: any message ends the wait
MatchesAny(m, a) == m.action # "None"

\* line 105: response.get("action") == action
Matches(m, a) == m.action = a

\* faulty variant of Requeue: the side list is emptied without putting back
RequeueDrop(q, st) == q

\* faulty variant of Requeue: the newest stored response is put back first
RequeueNewest(q, st) == Append(q, st[Len(st)])

\* line 113/143: self.response_queue.put(stored_responses.pop(0))
Requeue(q, st) == Append(q, Head(st))

\* faulty variant of StoreAside: the response is appended before its action is tested
StoreAlways(st, m, matched) == Append(st, m)

\* line 105-121: only a response of another action goes to stored_responses
StoreAside(st, m, matched) == IF matched THEN st ELSE Append(st, m)

\* line 105: response.get exists: the response is a dict
HasGet(m) == "action" \in DOMAIN m

\* the times at which the responses of the side list were taken off the queue
AsideAt(c, m, matched) ==
    IF Len(StoreAside(w[c].stored, m, matched)) > Len(w[c].stored)
    THEN Append(w[c].aside_at, now)
    ELSE w[c].aside_at

\* line 103-121: response = self.response_queue.get(timeout=0.01), then the
\* test; response.get of a value that is no dict raises AttributeError, which
\* nothing in wait_response catches
GetItem(c) ==
    /\ w[c].pc = "get"
    /\ response_queue # <<>>
    /\ LET m == Head(response_queue) IN
       /\ response_queue' = Tail(response_queue)
       /\ IF ~HasGet(m)
          THEN /\ w' = [w EXCEPT ![c].pc = "raised", ![c].popped = Append(@, m)]
               /\ UNCHANGED returned
          ELSE IF Matches(m, w[c].action)
          THEN /\ w' = [w EXCEPT ![c].pc = "requeue_match", ![c].result = m,
                                 ![c].stored = StoreAside(@, m, TRUE),
                                 ![c].aside_at = AsideAt(c, m, TRUE),
                                 ![c].popped = Append(@, m)]
               /\ returned' = Append(returned, m)
          ELSE /\ w' = [w EXCEPT ![c].pc = "loop",
                                 ![c].stored = StoreAside(@, m, FALSE),
                                 ![c].aside_at = AsideAt(c, m, FALSE),
                                 ![c].popped = Append(@, m)]
               /\ UNCHANGED returned
    /\ UNCHANGED <<now, nextId>>

\* line 122-124: except Empty, after the 0.01 s of get(); then time.sleep(0.01)
GetEmpty(c) ==
    /\ w[c].pc = "get"
    /\ response_queue = <<>>
    /\ now = w[c].dl
    /\ w' = [w EXCEPT ![c].pc = "sleep", ![c].dl = now + PollTicks]
    /\ UNCHANGED <<now, response_queue, nextId, returned>>

\* line 124: time.sleep(0.01) is over
SleepDone(c) ==
    /\ w[c].pc = "sleep"
    /\ now = w[c].dl
    /\ w' = [w EXCEPT ![c].pc = "loop"]
    /\ UNCHANGED <<now, response_queue, nextId, returned>>

\* line 112-115 (match) and 142-145 (timeout): put back, then return
RequeueStep(c) ==
    /\ w[c].pc \in {"requeue_match", "requeue_timeout"}
    /\ IF w[c].stored # <<>>
       THEN /\ response_queue' = Requeue(response_queue, w[c].stored)
            /\ w' = [w EXCEPT ![c].stored = Tail(@),
                              ![c].aside_at = Tail(@),
                              ![c].pushed = @ \o SubSeq(response_queue',
                                                        Len(response_queue) + 1,
                                                        Len(response_queue'))]
       ELSE /\ w' = [w EXCEPT ![c].pc = "done", ![c].ret = now]
            /\ UNCHANGED response_queue
    /\ UNCHANGED <<now, nextId, returned>>

WaitStep(c) ==
    \/ LoopTest(c)
    \/ GetItem(c)
    \/ GetEmpty(c)
    \/ SleepDone(c)
    \/ RequeueStep(c)

\* a caller that has a statement to execute now (statements take no time)
Urgent(c) ==
    \/ w[c].pc \in {"loop", "requeue_match", "requeue_timeout"}
    \/ w[c].pc = "get" /\ (response_queue # <<>> \/ now >= w[c].dl)
    \/ w[c].pc = "sleep" /\ now >= w[c].dl

\* the clock is read by wait_response only: it is advanced while a call blocks
Tick ==
    /\ now < MaxTime
    /\ \E c \in Callers : w[c].pc \in {"get", "sleep"}
    /\ \A c \in Callers : ~Urgent(c)
    /\ now' = now + 1
    /\ UNCHANGED <<response_queue, w, nextId, returned>>

-----------------------------------------------------------------------------
(* SerialWorker.run, seen from the queue: one parsed line is put *)

\* line 416: self.response_queue.put(response)
ReaderPut(a) ==
    /\ nextId <= MaxMsgs
    /\ response_queue' = Append(response_queue, [id |-> nextId, action |-> a])
    /\ nextId' = nextId + 1
    /\ UNCHANGED <<now, w, returned>>

-----------------------------------------------------------------------------
(* Specification of the correlation layer with one caller *)

\* I2CManager.__init__ and SerialWorker.__init__: the state after construction
Init ==
    /\ now = 0
    /\ response_queue = <<>>
    /\ w = [c \in Callers |-> IdleFrame]
    /\ nextId = 1
    /\ returned = <<>>
    /\ is_paused = TRUE
    /\ is_active = FALSE
    /\ current_device = [name |-> "None", addr7 |-> 0]
    /\ op = [name |-> "idle", pc |-> "idle", addr7 |-> 0, cmd |-> 0, ops |-> 0,
             was_paused |-> FALSE, resume |-> "none", select_sent |-> FALSE,
             result |-> FALSE]
    /\ wire = <<>>
    /\ sent = <<>>
    /\ serial_in = <<>>
    /\ buffer = <<>>
    /\ stream = <<>>
    /\ text = <<>>
    /\ reads = 0
    /\ gd = [pc |-> "idle", attempt |-> 0, result |-> <<>>, log |-> <<>>,
             flushed |-> <<>>, calls |-> 0]
    /\ devices = <<>>
    /\ ctor = [pc |-> "done", tries |-> 0]
    /\ bulk = [pc |-> "idle", result |-> None, snapshot |-> "None", calls |-> 0]
    /\ dec = [pc |-> "idle", dev |-> "None", method |-> "None", step |-> 0,
              vals |-> <<>>, out |-> "None", sends |-> 0, lacking |-> FALSE,
              calls |-> 0, raw |-> <<>>, num |-> NoNum]
    /\ mock = [buffer |-> <<>>, selected_device |-> 0, paused |-> TRUE,
               last_command |-> 0, log |-> <<>>]
    /\ running = TRUE
    /\ is_open = TRUE
    /\ lock = 0
    /\ snd = [t \in Callers |-> [pc |-> "idle", action |-> "None", raised |-> FALSE,
                                 calls |-> 0]]
    /\ cl = [pc |-> "idle", pause |-> "none", waited |-> "none", events |-> <<>>]
    /\ rd = [pc |-> "test", faults |-> 0, after_clear |-> 0]

CallerWait(c) ==
    /\ w[c].calls < MaxCalls
    /\ \E a \in Actions, t \in Timeouts : WaitCall(c, a, t)

WaitNext ==
    \/ CallerWait(1)
    \/ WaitStep(1)
    \/ \E a \in Actions : ReaderPut(a)
    \/ Tick

SpecWait ==
    /\ Init
    /\ [][WaitNext /\ UNCHANGED <<sessVars, readerVars, restVars>>]_vars

-----------------------------------------------------------------------------
(* Specification of the correlation layer with two concurrent callers *)

\* each of the two callers makes one call, with the shortest timeout
ConcCallerWait(c) ==
    /\ w[c].pc = "idle"
    /\ \E a \in Actions : WaitCall(c, a, PollTicks)

ConcNext ==
    \/ \E c \in Callers : ConcCallerWait(c)
    \/ \E c \in Callers : WaitStep(c)
    \/ \E a \in Actions : ReaderPut(a)
    \/ Tick

SpecConc ==
    /\ Init
    /\ [][ConcNext /\ UNCHANGED <<sessVars, readerVars, restVars>>]_vars

-----------------------------------------------------------------------------
(* The session: send_command, select_device and the bridge *)

DefaultTimeout == 3   \* timeout=1.0 of wait_response, scaled to the clock

Addrs == {37, 60}     \* 0x25 and 0x3C, the addresses the mock bridge reports

NoDevice == [name |-> "None", addr7 |-> 0]

\* app/device/__init__.py: the names that have a decoder
DEVICE_MAP == {"uP9512"}

\* mock_serial.py line 55: the device-type name the bridge reports for an address
NameOf(a) == IF a = 37 THEN "uP9512" ELSE "SSD1306"

\* line 73-76: is_paused after send_command(cmd)
PausedAfterSend(a, p) ==
    IF a = "pause" THEN TRUE ELSE IF a = "resume" THEN FALSE ELSE p

\* faulty variant of ActiveAfterSend: a pause leaves is_active as it is
ActiveAfterResumeOnly(a, v) == IF a = "resume" THEN TRUE ELSE v

\* line 77-80: is_active after send_command(cmd)
ActiveAfterSend(a, v) ==
    IF a = "resume" THEN TRUE ELSE IF a = "pause" THEN FALSE ELSE v

\* line 71-90: send_command(cmd): the flags are set, then the line is written
SendCommand(a, addr, paused) ==
    LET cmd == [cid |-> Len(sent) + 1, action |-> a, addr |-> addr] IN
    /\ is_paused' = PausedAfterSend(a, paused)
    /\ is_active' = ActiveAfterSend(a, is_active)
    /\ wire' = Append(wire, cmd)
    /\ sent' = Append(sent, cmd)

\* the caller calls send_command with a pause or resume, as monitor() does
CallerSend(a) ==
    /\ op.pc \in {"idle", "done"}
    /\ op.ops < MaxOps
    /\ SendCommand(a, 0, is_paused)
    /\ op' = [op EXCEPT !.name = "send", !.pc = "done", !.ops = @ + 1,
                        !.cmd = Len(sent) + 1]
    /\ UNCHANGED <<current_device, waitVars>>

\* line 156: response and response.get("status") == "OK"
AckOK(r) == r.id # 0 /\ r.status = "OK"

\* line 153-155, or 160-161 when the session is not paused
SelectStart(a) ==
    /\ op.pc \in {"idle", "done"}
    /\ op.ops < MaxOps
    /\ IF is_paused
       THEN /\ SendCommand("resume", 0, is_paused)
            /\ WaitCall(1, "resume", DefaultTimeout)
            /\ op' = [op EXCEPT !.name = "select", !.pc = "wait_resume",
                                !.addr7 = a, !.cmd = Len(sent) + 1,
                                !.ops = @ + 1, !.was_paused = TRUE,
                                !.resume = "none", !.select_sent = FALSE,
                                !.result = FALSE]
       ELSE /\ SendCommand("select", a, is_paused)
            /\ WaitCall(1, "select", DefaultTimeout)
            /\ op' = [op EXCEPT !.name = "select", !.pc = "wait_select",
                                !.addr7 = a, !.cmd = Len(sent) + 1,
                                !.ops = @ + 1, !.was_paused = FALSE,
                                !.resume = "none", !.select_sent = TRUE,
                                !.result = FALSE]
    /\ UNCHANGED current_device

\* line 156-161: the resume wait is over; the select command is sent
SelectAfterResume ==
    /\ op.pc = "wait_resume"
    /\ w[1].pc = "done"
    /\ SendCommand("select", op.addr7,
                   IF AckOK(w[1].result) THEN FALSE ELSE is_paused)
    /\ WaitCall(1, "select", DefaultTimeout)
    /\ op' = [op EXCEPT !.pc = "wait_select", !.cmd = Len(sent) + 1,
                        !.resume = IF AckOK(w[1].result) THEN "ok" ELSE "failed",
                        !.select_sent = TRUE]
    /\ UNCHANGED current_device

\* line 167: DEVICE_MAP[device_name](self, addr7), the decoder the map builds.
\* DeviceConnectionManager.get_device, which the map calls, is not part of
\* the sources; by the specification it gives a decoder of that device type
\* bound to the address.
GetDevice(name, a) == [name |-> name, addr7 |-> a]

\* line 163-173: the select wait is over
SelectFinish ==
    /\ op.pc = "wait_select"
    /\ w[1].pc = "done"
    /\ LET r == w[1].result IN
       IF AckOK(r) /\ r.name \in DEVICE_MAP
       THEN /\ current_device' = GetDevice(r.name, op.addr7)
            /\ op' = [op EXCEPT !.pc = "done", !.result = TRUE]
       ELSE /\ current_device' = NoDevice
            /\ op' = [op EXCEPT !.pc = "done", !.result = FALSE]
    /\ UNCHANGED <<is_paused, is_active, wire, sent, waitVars>>

\* the bridge handles the oldest command and its reply line reaches the queue
BridgeReply(st) ==
    /\ wire # <<>>
    /\ nextId <= MaxMsgs
    /\ LET cmd == Head(wire) IN
       response_queue' = Append(response_queue,
           [id |-> nextId, action |-> cmd.action, status |-> st,
            addr |-> cmd.addr, name |-> NameOf(cmd.addr), re |-> cmd.cid])
    /\ nextId' = nextId + 1
    /\ wire' = Tail(wire)
    /\ UNCHANGED <<now, w, returned, is_paused, is_active, current_device, op, sent>>

\* the bridge never answers the oldest command
BridgeSilent ==
    /\ wire # <<>>
    /\ wire' = Tail(wire)
    /\ UNCHANGED <<waitVars, is_paused, is_active, current_device, op, sent>>

SessNext ==
    \/ \E a \in {"pause", "resume"} : CallerSend(a)
    \/ \E a \in Addrs : SelectStart(a)
    \/ SelectAfterResume
    \/ SelectFinish
    \/ WaitStep(1) /\ UNCHANGED sessVars
    \/ Tick /\ UNCHANGED sessVars
    \/ \E st \in {"OK", "ERROR"} : BridgeReply(st)
    \/ BridgeSilent

SpecSession ==
    /\ Init
    /\ [][SessNext /\ UNCHANGED <<readerVars, restVars>>]_vars

-----------------------------------------------------------------------------
(* get_devices, and _initialize, which the constructor runs *)

MaxRetries == 5       \* max_retries of get_devices
InitRetries == 2      \* max_retries of _initialize

\* line 286: timeout = 1.0 * attempt, on the scale of the clock
EnumTimeout(k) == k * DefaultTimeout

\* faulty variant of RetryWait: the same delay after every attempt
RetryWaitFlat(k) == 1

\* line 311: retry_wait = 0.5 * attempt, in half seconds
RetryWait(k) == k

\* line 94 and 101: wait_response reads the clock only as a difference to its
\* own start; while no call is in progress the origin of the clock is moved
ClockRestart ==
    /\ now > 0
    /\ \A c \in Callers : w[c].pc \in {"idle", "done"}
    /\ now' = 0
    /\ UNCHANGED <<response_queue, w, nextId, returned>>

\* line 270-272: get_devices is entered
GdEnter ==
    /\ gd.pc \in {"idle", "done"}
    /\ gd' = [gd EXCEPT !.pc = "flush", !.attempt = 0, !.result = <<>>,
                        !.log = <<>>, !.flushed = <<>>, !.calls = @ + 1]

\* line 275-280: one pending response is discarded, or the queue is empty;
\* line 278 calls discarded.get, which raises AttributeError on a value that
\* is no dict, and the loop catches Empty only
GdFlush ==
    /\ gd.pc = "flush"
    /\ IF response_queue # <<>>
       THEN /\ response_queue' = Tail(response_queue)
            /\ gd' = [gd EXCEPT !.flushed = Append(@, Head(response_queue)),
                                !.pc = IF HasGet(Head(response_queue))
                                       THEN @ ELSE "raised"]
       ELSE /\ gd' = [gd EXCEPT !.pc = "attempt", !.attempt = 1]
            /\ UNCHANGED response_queue
    /\ UNCHANGED <<now, w, nextId, returned, sessVars, devices, ctor>>

\* line 284-296: the attempt's command is sent and its response waited for
GdSend ==
    /\ gd.pc = "attempt"
    /\ SendCommand("get_devices", 0, is_paused)
    /\ WaitCall(1, "get_devices", EnumTimeout(gd.attempt))
    /\ gd' = [gd EXCEPT !.pc = "wait",
                        !.log = Append(@, [ev |-> "send", attempt |-> gd.attempt,
                                           amount |-> EnumTimeout(gd.attempt)])]
    /\ UNCHANGED <<current_device, op, devices, ctor>>

\* line 298: response and 'devices' in response and 'names' in response
Usable(r) == r.id # 0 /\ r.has_devices /\ r.has_names

\* line 299-305: one descriptor per pair zip() gives
Descriptors(r) ==
    LET n == IF Len(r.devices) < Len(r.names) THEN Len(r.devices) ELSE Len(r.names)
    IN  [i \in 1..n |-> [addr7 |-> r.devices[i], name |-> r.names[i]]]

\* faulty variant of AfterLastAttempt: the attempts start over
AfterLastAttemptAgain(g) == [g EXCEPT !.pc = "attempt", !.attempt = 1]

\* line 315-316: after the last attempt the empty list is returned
AfterLastAttempt(g) == [g EXCEPT !.pc = "done", !.result = <<>>]

\* line 298-313: the wait of the attempt is over
GdAfterWait ==
    /\ gd.pc = "wait"
    /\ w[1].pc = "done"
    /\ LET r == w[1].result IN
       IF Usable(r)
       THEN gd' = [gd EXCEPT !.pc = "done", !.result = Descriptors(r)]
       ELSE IF gd.attempt < MaxRetries
            THEN gd' = [gd EXCEPT !.pc = "retry_sleep",
                           !.log = Append(@, [ev |-> "delay", attempt |-> gd.attempt,
                                              amount |-> RetryWait(gd.attempt)])]
            ELSE gd' = AfterLastAttempt(gd)
    /\ UNCHANGED <<waitVars, sessVars, devices, ctor>>

\* line 313: time.sleep(retry_wait) is over, the next attempt begins
GdRetry ==
    /\ gd.pc = "retry_sleep"
    /\ gd' = [gd EXCEPT !.pc = "attempt", !.attempt = @ + 1]
    /\ UNCHANGED <<waitVars, sessVars, devices, ctor>>

GdStep == GdFlush \/ GdSend \/ GdAfterWait \/ GdRetry

\* mock_serial.py line 32-38: the reply to get_devices; the bridge may also
\* report no device, leave one of the two lists out, or (kind "fewnames")
\* report a name for the first of its two addresses only
EnumReply(id, cmd, kind) ==
    [id |-> id, action |-> cmd.action, status |-> "OK", addr |-> 0, name |-> "",
     re |-> cmd.cid,
     has_devices |-> kind # "nodevices", has_names |-> kind # "nonames",
     devices |-> IF kind \in {"list", "fewnames"} THEN <<37, 60>> ELSE <<>>,
     names |-> IF kind = "list" THEN <<"uP9512", "SSD1306">>
               ELSE IF kind = "fewnames" THEN <<"uP9512">> ELSE <<>>]

EnumKinds == {"list", "empty", "nodevices", "nonames"}

\* the bridge answers the oldest command, a get_devices, and the line is enqueued
BridgeEnumReply(kind) ==
    /\ wire # <<>>
    /\ Head(wire).action = "get_devices"
    /\ nextId <= MaxMsgs
    /\ response_queue' = Append(response_queue, EnumReply(nextId, Head(wire), kind))
    /\ nextId' = nextId + 1
    /\ wire' = Tail(wire)
    /\ UNCHANGED <<now, w, returned, is_paused, is_active, current_device, op, sent,
                   enumVars>>

\* the bridge answers the oldest command, a pause, resume or select
BridgeOtherReply(st) ==
    /\ wire # <<>>
    /\ Head(wire).action \notin {"get_devices", "bulk_rw"}
    /\ BridgeReply(st)
    /\ UNCHANGED enumVars

\* I2CManager.__init__ line 36-49: the fields are set, _initialize is about
\* to run
InitCtor ==
    /\ now = 0
    /\ response_queue = <<>>
    /\ w = [c \in Callers |-> IdleFrame]
    /\ nextId = 1
    /\ returned = <<>>
    /\ is_paused = TRUE
    /\ is_active = FALSE
    /\ current_device = [name |-> "None", addr7 |-> 0]
    /\ op = [name |-> "idle", pc |-> "idle", addr7 |-> 0, cmd |-> 0, ops |-> 0,
             was_paused |-> FALSE, resume |-> "none", select_sent |-> FALSE,
             result |-> FALSE]
    /\ wire = <<>>
    /\ sent = <<>>
    /\ serial_in = <<>>
    /\ buffer = <<>>
    /\ stream = <<>>
    /\ text = <<>>
    /\ reads = 0
    /\ gd = [pc |-> "idle", attempt |-> 0, result |-> <<>>, log |-> <<>>,
             flushed |-> <<>>, calls |-> 0]
    /\ devices = <<>>
    /\ ctor = [pc |-> "start", tries |-> 0]
    /\ bulk = [pc |-> "idle", result |-> None, snapshot |-> "None", calls |-> 0]
    /\ dec = [pc |-> "idle", dev |-> "None", method |-> "None", step |-> 0,
              vals |-> <<>>, out |-> "None", sends |-> 0, lacking |-> FALSE,
              calls |-> 0, raw |-> <<>>, num |-> NoNum]
    /\ mock = [buffer |-> <<>>, selected_device |-> 0, paused |-> TRUE,
               last_command |-> 0, log |-> <<>>]
    /\ running = TRUE
    /\ is_open = TRUE
    /\ lock = 0
    /\ snd = [t \in Callers |-> [pc |-> "idle", action |-> "None", raised |-> FALSE,
                                 calls |-> 0]]
    /\ cl = [pc |-> "idle", pause |-> "none", waited |-> "none", events |-> <<>>]
    /\ rd = [pc |-> "test", faults |-> 0, after_clear |-> 0]

\* line 56-58: time.sleep(0.5); self.devices = self.get_devices()
CtorTry ==
    /\ ctor.pc = "start"
    /\ GdEnter
    /\ ctor' = [ctor EXCEPT !.pc = "enum", !.tries = @ + 1]
    /\ UNCHANGED <<waitVars, sessVars, devices>>

\* faulty variant of CtorSelects: the first device is never selected
CtorSelectsNever(ds) == FALSE

\* line 59-63: if self.devices: the first device is selected
CtorSelects(ds) == ds # <<>>

\* line 58-69: get_devices has returned
CtorAfterEnum ==
    /\ ctor.pc = "enum"
    /\ gd.pc = "done"
    /\ devices' = gd.result
    /\ IF gd.result # <<>>
       THEN IF CtorSelects(gd.result)
            THEN /\ SelectStart(gd.result[1].addr7)
                 /\ ctor' = [ctor EXCEPT !.pc = "select"]
            ELSE /\ ctor' = [ctor EXCEPT !.pc = "done"]
                 /\ UNCHANGED <<waitVars, sessVars>>
       ELSE /\ ctor' = [ctor EXCEPT !.pc = IF ctor.tries < InitRetries
                                           THEN "start" ELSE "done"]
            /\ UNCHANGED <<waitVars, sessVars>>
    /\ UNCHANGED gd

\* line 66-67: select_device has returned, and so does _initialize
CtorSelectDone ==
    /\ ctor.pc = "select"
    /\ op.pc = "done"
    /\ ctor' = [ctor EXCEPT !.pc = "done"]
    /\ UNCHANGED <<waitVars, sessVars, gd, devices>>

\* the bridge handles a command either at once, before the caller's wait has
\* let any time pass, or late, when that wait has already returned
BridgeTurn ==
    \/ w[1].pc \in {"loop", "get"} /\ now = w[1].start
    \/ w[1].pc = "done"

\* the bridge has replied to, or dropped, every command written so far
Settled == wire = <<>>

\* no call is in progress and the origin of the clock has not been moved yet
RestartDue == now > 0 /\ \A c \in Callers : w[c].pc \in {"idle", "done"}

\* the caller goes on when the bridge has settled its last command
CallerTurn == Settled /\ ~RestartDue

CtorNext ==
    \/ CallerTurn /\ CtorTry
    \/ CallerTurn /\ CtorAfterEnum
    \/ CallerTurn /\ CtorSelectDone
    \/ CallerTurn /\ GdStep
    \/ CallerTurn /\ SelectAfterResume /\ UNCHANGED enumVars
    \/ CallerTurn /\ SelectFinish /\ UNCHANGED enumVars
    \/ WaitStep(1) /\ UNCHANGED <<sessVars, enumVars>>
    \/ Tick /\ UNCHANGED <<sessVars, enumVars>>
    \/ Settled /\ ClockRestart /\ UNCHANGED <<sessVars, enumVars>>
    \/ BridgeTurn /\ \E kind \in EnumKinds : BridgeEnumReply(kind)
    \/ BridgeTurn /\ \E st \in {"OK", "ERROR"} : BridgeOtherReply(st)
    \/ BridgeTurn /\ BridgeSilent /\ UNCHANGED enumVars

SpecCtor ==
    /\ InitCtor
    /\ [][CtorNext /\ UNCHANGED <<readerVars, bulk, dec, mock, lifeVars>>]_vars

-----------------------------------------------------------------------------
(* Specification of get_devices called on a constructed manager *)

\* the caller calls get_devices
CallerEnum ==
    /\ gd.calls < MaxEnumCalls
    /\ GdEnter
    /\ UNCHANGED <<waitVars, sessVars, devices, ctor>>

\* a line that answers no command of this caller reaches the queue while the
\* caller is outside get_devices
StrayPut(a) ==
    /\ gd.pc \in {"idle", "done"}
    /\ ReaderPut(a)
    /\ UNCHANGED <<sessVars, enumVars>>

\* what a get_devices call in progress can do on its own
GdProgress ==
    \/ CallerTurn /\ GdStep
    \/ WaitStep(1) /\ UNCHANGED <<sessVars, enumVars>>
    \/ Tick /\ UNCHANGED <<sessVars, enumVars>>
    \/ Settled /\ ClockRestart /\ UNCHANGED <<sessVars, enumVars>>

EnumNext ==
    \/ CallerTurn /\ CallerEnum
    \/ GdProgress
    \/ \E a \in Actions : StrayPut(a)
    \/ BridgeTurn /\ \E kind \in EnumKinds : BridgeEnumReply(kind)
    \/ BridgeTurn /\ BridgeSilent /\ UNCHANGED enumVars

SpecEnum ==
    /\ Init
    /\ [][EnumNext /\ UNCHANGED <<readerVars, bulk, dec, mock, lifeVars>>]_vars

-----------------------------------------------------------------------------
(* Specification of get_devices against a bridge whose two lists may differ *)
(* in length                                                               *)

PairKinds == EnumKinds \cup {"fewnames"}

PairNext ==
    \/ CallerTurn /\ CallerEnum
    \/ GdProgress
    \/ BridgeTurn /\ \E kind \in PairKinds : BridgeEnumReply(kind)
    \/ BridgeTurn /\ BridgeSilent /\ UNCHANGED enumVars

SpecPair ==
    /\ Init
    /\ [][PairNext /\ UNCHANGED <<readerVars, bulk, dec, mock, lifeVars>>]_vars

-----------------------------------------------------------------------------
(* rescan_devices called on a constructed manager *)

\* line 147-149: send_command({"action": "scan"}), then wait_response("scan")
RescanCall ==
    /\ op.pc \in {"idle", "done"}
    /\ op.ops < MaxOps
    /\ SendCommand("scan", 0, is_paused)
    /\ WaitCall(1, "scan", DefaultTimeout)
    /\ op' = [op EXCEPT !.name = "rescan", !.pc = "wait_scan", !.ops = @ + 1,
                        !.cmd = Len(sent) + 1]
    /\ UNCHANGED <<current_device, enumVars>>

\* line 149: wait_response has returned and its result is returned as it is;
\* self.devices is not assigned
RescanReturn ==
    /\ op.pc = "wait_scan"
    /\ w[1].pc = "done"
    /\ op' = [op EXCEPT !.pc = "done", !.result = w[1].result.id # 0]
    /\ UNCHANGED <<is_paused, is_active, current_device, wire, sent, waitVars,
                   enumVars>>

\* the bridge answers the oldest command, a scan, with the list of devices it
\* finds, and the line is enqueued
BridgeScanReply(kind) ==
    /\ wire # <<>>
    /\ Head(wire).action = "scan"
    /\ nextId <= MaxMsgs
    /\ response_queue' = Append(response_queue, EnumReply(nextId, Head(wire), kind))
    /\ nextId' = nextId + 1
    /\ wire' = Tail(wire)
    /\ UNCHANGED <<now, w, returned, is_paused, is_active, current_device, op, sent,
                   enumVars>>

RescanNext ==
    \/ CallerTurn /\ RescanCall
    \/ CallerTurn /\ RescanReturn
    \/ WaitStep(1) /\ UNCHANGED <<sessVars, enumVars>>
    \/ Tick /\ UNCHANGED <<sessVars, enumVars>>
    \/ Settled /\ ClockRestart /\ UNCHANGED <<sessVars, enumVars>>
    \/ BridgeTurn /\ \E kind \in EnumKinds : BridgeScanReply(kind)
    \/ BridgeTurn /\ BridgeSilent /\ UNCHANGED enumVars

SpecRescan ==
    /\ Init
    /\ [][RescanNext /\ UNCHANGED <<readerVars, bulk, dec, mock, lifeVars>>]_vars

-----------------------------------------------------------------------------
(* Specification of a caller that polls: it calls wait_response again and  *)
(* again, as the loop of monitor() does through get_measurements            *)

\* line 94-95: the next call of the polling caller; its calls are not counted
PollCall(a) ==
    /\ w[1].pc \in {"idle", "done"}
    /\ now + 3 * PollTicks - 1 <= MaxTime
    /\ w' = [w EXCEPT ![1] = [IdleFrame EXCEPT !.pc = "loop", !.action = a,
                                               !.timeout = PollTicks,
                                               !.start = now]]
    /\ UNCHANGED <<now, response_queue, nextId, returned>>

\* what the polling caller does: it calls, runs its call, lets time pass
PollRun ==
    \/ \E a \in Actions : PollCall(a)
    \/ WaitStep(1)
    \/ Tick
    \/ ClockRestart

PollNext ==
    \/ PollRun
    \/ \E a \in Actions : ReaderPut(a)

\* the caller's thread is scheduled again and again and its clock advances
SpecPoll ==
    /\ Init
    /\ [][PollNext /\ UNCHANGED <<sessVars, readerVars, restVars>>]_vars
    /\ WF_vars(PollRun /\ UNCHANGED <<sessVars, readerVars, restVars>>)

-----------------------------------------------------------------------------
(* bulk_rw, and UP9512.get_measurements, which calls it *)

NumRegs == 8          \* registers UP9512.get_measurements reads in one bulk_rw

\* line 190-196: what bulk_rw returns for the response of its wait
BulkResult(r) ==
    IF r.id = 0 THEN None
    ELSE IF r.status = "PAUSED" THEN None
    ELSE r

\* base.py line 10 and up9512.py line 103-114, 180-182: read_registers gives
\* None when response["values"] raises; a short list gives no snapshot
Snapshot(res) ==
    IF res = None THEN "None"
    ELSE IF ~res.has_values THEN "None"
    ELSE IF res.nvalues < NumRegs THEN "None"
    ELSE "full"

\* line 38 and 238: self.running is a list of one element, the flag that
\* close() clears is its element
RunningList == <<running>>

\* line 177: not self.running, which is true of an empty list only
Refused == Len(RunningList) = 0

\* line 175-188: bulk_rw tests self.running, then sends and waits
\* (up9512.py line 179-188: get_measurements calls it)
BulkCall ==
    /\ bulk.pc \in {"idle", "done"}
    /\ bulk.calls < MaxOps
    /\ IF Refused
       THEN /\ bulk' = [bulk EXCEPT !.pc = "done", !.calls = @ + 1,
                                    !.result = None, !.snapshot = "None"]
            /\ UNCHANGED <<waitVars, is_paused, is_active, wire, sent>>
       ELSE /\ SendCommand("bulk_rw", 0, is_paused)
            /\ WaitCall(1, "bulk_rw", DefaultTimeout)
            /\ bulk' = [bulk EXCEPT !.pc = "wait", !.calls = @ + 1,
                                    !.result = None, !.snapshot = "None"]
    /\ UNCHANGED <<current_device, op, enumVars>>

\* line 190-196, then up9512.py line 180-218
BulkReturn ==
    /\ bulk.pc = "wait"
    /\ w[1].pc = "done"
    /\ bulk' = [bulk EXCEPT !.pc = "done", !.result = BulkResult(w[1].result),
                            !.snapshot = Snapshot(BulkResult(w[1].result))]
    /\ UNCHANGED <<waitVars, sessVars, enumVars>>

\* the reply of the bridge to a bulk_rw with reads: values for all registers,
\* for some of them, none (mock_serial.py line 77-80), or the status PAUSED
BulkReply(id, cmd, kind) ==
    [id |-> id, action |-> cmd.action,
     status |-> IF kind = "paused" THEN "PAUSED" ELSE "OK",
     addr |-> 0, name |-> "", re |-> cmd.cid,
     has_values |-> kind \in {"values", "short"},
     nvalues |-> IF kind = "values" THEN NumRegs ELSE IF kind = "short" THEN 3 ELSE 0]

BulkKinds == {"values", "short", "novalues", "paused"}

\* the bridge answers the oldest command, a bulk_rw, and the line is enqueued
BridgeBulkReply(kind) ==
    /\ wire # <<>>
    /\ Head(wire).action = "bulk_rw"
    /\ nextId <= MaxMsgs
    /\ response_queue' = Append(response_queue, BulkReply(nextId, Head(wire), kind))
    /\ nextId' = nextId + 1
    /\ wire' = Tail(wire)
    /\ UNCHANGED <<now, w, returned, is_paused, is_active, current_device, op, sent,
                   enumVars, bulk>>

BulkNext ==
    \/ CallerTurn /\ BulkCall
    \/ CallerTurn /\ BulkReturn
    \/ \E a \in {"pause", "resume"} : CallerTurn /\ bulk.pc # "wait" /\ CallerSend(a)
                                       /\ UNCHANGED <<enumVars, bulk>>
    \/ WaitStep(1) /\ UNCHANGED <<sessVars, enumVars, bulk>>
    \/ Tick /\ UNCHANGED <<sessVars, enumVars, bulk>>
    \/ Settled /\ ClockRestart /\ UNCHANGED <<sessVars, enumVars, bulk>>
    \/ BridgeTurn /\ \E kind \in BulkKinds : BridgeBulkReply(kind)
    \/ BridgeTurn /\ \E st \in {"OK", "ERROR"} : BridgeOtherReply(st) /\ UNCHANGED bulk
    \/ BridgeTurn /\ BridgeSilent /\ UNCHANGED <<enumVars, bulk>>

SpecBulk ==
    /\ Init
    /\ [][BulkNext /\ UNCHANGED <<readerVars, dec, mock, lifeVars>>]_vars

-----------------------------------------------------------------------------
(* The decoders: get_measurements and get_protection_status of UP9512,     *)
(* IR35201 and NCP4206, read_registers call by read_registers call         *)

Decoders == {"UP9512", "IR35201", "NCP4206"}

Methods == {"get_measurements", "get_protection_status"}

\* the read_registers calls of a method, in order, each by the number of
\* registers in its list.  up9512.py line 169-180 and 118; ir35201.py line
\* 23-28 and 52-59; ncp4206.py line 29-32, and 70-72 with get_phase_count
Reads(dev, m) ==
    IF dev = "UP9512"
    THEN IF m = "get_measurements" THEN <<8>> ELSE <<2>>
    ELSE IF dev = "IR35201"
    THEN IF m = "get_measurements" THEN <<4>> ELSE <<6>>
    ELSE IF m = "get_measurements" THEN <<1, 1, 1, 1>> ELSE <<1, 1, 1>>

\* faulty variant of DecCommand: the decoder resumes the session itself
DecCommandResume(dev) == "resume"

\* base.py line 9: self.manager.bulk_rw(reads=reg_list); manager.py line 180
DecCommand(dev) == "bulk_rw"

\* base.py line 9-10: response["values"] of what bulk_rw returned: None has no
\* subscript (TypeError), a reply without values has no such key (KeyError).
\* up9512.py line 103-114: the override catches every exception and gives None
ReadRegisters(dev, res) ==
    LET base == IF res = None THEN [kind |-> "TypeError", n |-> 0]
                ELSE IF ~res.has_values THEN [kind |-> "KeyError", n |-> 0]
                ELSE [kind |-> "values", n |-> res.nvalues]
    IN  IF dev = "UP9512" /\ base.kind # "values"
        THEN [kind |-> "None", n |-> 0]
        ELSE base

\* what a method that makes a single read_registers call returns.
\* up9512.py line 181-182 and 119-120: None unless the list is complete;
\* ir35201.py line 30-31, 46-47, 61-62, 92-93: TypeError and a short list
\* give the zero snapshot (the empty dict for the protection flags), while
\* KeyError is not among the exceptions caught
SingleOutput(dev, m, rr) ==
    LET need == Reads(dev, m)[1] IN
    IF dev = "UP9512"
    THEN IF rr.kind # "values" THEN "None"
         ELSE IF m = "get_measurements"
              THEN IF rr.n < need THEN "None" ELSE "data"
              ELSE IF rr.n # need THEN "None" ELSE "data"
    ELSE IF rr.kind = "KeyError" THEN "raised"
         ELSE IF rr.kind = "TypeError" \/ rr.n < need
              THEN IF m = "get_measurements" THEN "zeros" ELSE "empty"
              ELSE "data"

\* ncp4206.py line 35-45 and 73-96: every read returned a list; an empty
\* list leaves its quantity at 0.0, or its flags out of the dict
NcpOutput(m, vals) ==
    IF \A i \in 1..Len(vals) : vals[i].n >= 1 THEN "data"
    ELSE IF m = "get_measurements" /\ \A i \in 1..Len(vals) : vals[i].n = 0
         THEN "zeros"
         ELSE "partial"

\* the frame after read_registers has given rr.  ncp4206.py line 47-54 and
\* 98-99: an exception of a read ends the method with the zero snapshot, or
\* the empty dict; line 64-65: get_phase_count, the third read of
\* get_protection_status, turns its exception into the count 0
AfterRead(d, rr) ==
    IF d.dev # "NCP4206"
    THEN [d EXCEPT !.pc = "done", !.vals = Append(@, rr),
                   !.out = SingleOutput(d.dev, d.method, rr)]
    ELSE IF rr.kind # "values" /\ ~(d.method = "get_protection_status" /\ d.step = 3)
         THEN [d EXCEPT !.pc = "done",
                        !.out = IF d.method = "get_measurements"
                                THEN "zeros" ELSE "empty"]
         ELSE LET vals == Append(d.vals, rr) IN
              IF d.step < Len(Reads(d.dev, d.method))
              THEN [d EXCEPT !.pc = "read", !.step = @ + 1, !.vals = vals]
              ELSE [d EXCEPT !.pc = "done", !.vals = vals,
                             !.out = NcpOutput(d.method, vals)]

\* the caller calls a method of a decoder
DecCall(dev, m) ==
    /\ dec.pc \in {"idle", "done"}
    /\ dec.calls < MaxDecCalls
    /\ dec' = [dec EXCEPT !.pc = "read", !.dev = dev, !.method = m, !.step = 1,
                          !.vals = <<>>, !.out = "None", !.sends = 0,
                          !.lacking = FALSE, !.calls = @ + 1]
    /\ UNCHANGED <<waitVars, sessVars, enumVars, bulk>>

\* base.py line 8-9 and manager.py line 180-189: the next read_registers call
\* sends its bulk_rw and waits for the response
DecSend ==
    /\ dec.pc = "read"
    /\ SendCommand(DecCommand(dec.dev), 0, is_paused)
    /\ WaitCall(1, "bulk_rw", DefaultTimeout)
    /\ dec' = [dec EXCEPT !.pc = "wait", !.sends = @ + 1]
    /\ UNCHANGED <<current_device, op, enumVars, bulk>>

\* bulk_rw gave no data, a reply without values, or fewer values than the
\* need registers asked for
Lacking(res, need) ==
    res = None \/ ~res.has_values \/ res.nvalues < need

\* manager.py line 191-197 and base.py line 10: bulk_rw and read_registers
\* return, and the method goes on; the frame keeps whether a read lacked data
DecReturn ==
    /\ dec.pc = "wait"
    /\ w[1].pc = "done"
    /\ LET res == BulkResult(w[1].result) IN
       dec' = [AfterRead(dec, ReadRegisters(dec.dev, res)) EXCEPT
                  !.lacking = @ \/ Lacking(res, Reads(dec.dev, dec.method)[dec.step])]
    /\ UNCHANGED <<waitVars, sessVars, enumVars, bulk>>

DecStep == DecSend \/ DecReturn

\* the reply of the bridge to a bulk_rw that reads need registers: a value for
\* each, one value too few, no values field, or the status PAUSED
DecReply(id, cmd, kind, need) ==
    [id |-> id, action |-> cmd.action,
     status |-> IF kind = "paused" THEN "PAUSED" ELSE "OK",
     addr |-> 0, name |-> "", re |-> cmd.cid,
     has_values |-> kind \in {"values", "short"},
     nvalues |-> IF kind = "values" THEN need
                 ELSE IF kind = "short" THEN need - 1 ELSE 0]

\* the bridge answers the oldest command, a bulk_rw of the decoder, and the
\* line is enqueued
BridgeDecReply(kind) ==
    /\ wire # <<>>
    /\ Head(wire).action = "bulk_rw"
    /\ dec.pc = "wait"
    /\ nextId <= MaxMsgs
    /\ response_queue' = Append(response_queue,
           DecReply(nextId, Head(wire), kind, Reads(dec.dev, dec.method)[dec.step]))
    /\ nextId' = nextId + 1
    /\ wire' = Tail(wire)
    /\ UNCHANGED <<now, w, returned, is_paused, is_active, current_device, op, sent,
                   enumVars, bulk, dec>>

\* the bridge also handles a command the caller sent before any wait began
DecBridgeTurn == BridgeTurn \/ w[1].pc = "idle"

DecoderNext ==
    \/ \E dev \in Decoders, m \in Methods : CallerTurn /\ DecCall(dev, m)
    \/ CallerTurn /\ DecStep
    \/ \E a \in {"pause", "resume"} : CallerTurn /\ dec.pc = "idle" /\ op.ops = 0
                                       /\ CallerSend(a)
                                       /\ UNCHANGED <<enumVars, bulk, dec>>
    \/ WaitStep(1) /\ UNCHANGED <<sessVars, enumVars, bulk, dec>>
    \/ Tick /\ UNCHANGED <<sessVars, enumVars, bulk, dec>>
    \/ Settled /\ ClockRestart /\ UNCHANGED <<sessVars, enumVars, bulk, dec>>
    \/ BridgeTurn /\ \E kind \in BulkKinds : BridgeDecReply(kind)
    \/ DecBridgeTurn /\ \E st \in {"OK", "ERROR"} : BridgeOtherReply(st)
                                                     /\ UNCHANGED <<bulk, dec>>
    \/ DecBridgeTurn /\ BridgeSilent /\ UNCHANGED <<enumVars, bulk, dec>>

SpecDecoder ==
    /\ Init
    /\ [][DecoderNext /\ UNCHANGED <<readerVars, mock, lifeVars>>]_vars

-----------------------------------------------------------------------------
(* The decoding of the register values: UP9512.get_measurements and        *)
(* NCP4206.get_phase_count as functions of the values read.  Voltages are  *)
(* in millivolts, so that the step factors are integers.  A behaviour       *)
(* applies one of the functions once.                                      *)

MaxByte == 255        \* the largest value of a register
V_LSB == 10           \* UP9512.V_LSB = 0.01 V, in millivolts
I_LSB == 10           \* UP9512.I_LSB = 0.01 V, in millivolts
R_SHUNT == 3          \* UP9512.R_SHUNT = 0.003 ohm, in milliohms

\* bit i of the byte b: b & (1 << i), as 0 or 1
Bit(b, i) == (b \div (2 ^ i)) % 2

\* faulty variant of Voltage: the value of IOUT_REG is taken
VoltageOfIout(values) == values[4] * V_LSB

\* up9512.py line 188: "voltage": values[2] * self.V_LSB
Voltage(values) == values[3] * V_LSB

\* up9512.py line 211-216: phase_map.get(prot_ind & 0x07, 0) with
\* prot_ind = values[1]; the map sends the field k to k + 1
OperatingPhases(values) == (values[2] % 8) + 1

\* up9512.py line 189: "current": (values[3] * self.I_LSB) / self.R_SHUNT,
\* in amperes, as a fraction
Current(values) == [num |-> values[4] * I_LSB, den |-> R_SHUNT]

\* up9512.py line 192: "power": ((values[6] * self.I_LSB) / self.R_SHUNT)
\* * (values[2] * self.V_LSB), in milliwatts, as a fraction
Power(values) ==
    [num |-> (values[7] * I_LSB) * (values[3] * V_LSB), den |-> R_SHUNT]

\* faulty variant of ProtKeys: every protection is reported, enabled or not
ProtKeysAll(misc1) ==
    {"total_ocp", "channel_ocl", "channel_ocl_status", "ovp", "uvp", "otp"}

\* up9512.py line 198-209: the keys of active_protections for a value of MISC1
ProtKeys(misc1) ==
    (IF Bit(misc1, 3) = 1 THEN {"total_ocp"} ELSE {})
        \cup (IF Bit(misc1, 2) = 1 THEN {"channel_ocl", "channel_ocl_status"} ELSE {})
        \cup (IF Bit(misc1, 1) = 1 THEN {"ovp"} ELSE {})
        \cup (IF Bit(misc1, 0) = 1 THEN {"uvp"} ELSE {})
        \cup {"otp"}

\* up9512.py line 184-185, 195-209: active_protections, with
\* prot_ind2 = values[0], prot_ind = values[1], misc1 = values[7]
ActiveProtections(values) ==
    [k \in ProtKeys(values[8]) |->
        CASE k = "total_ocp" -> Bit(values[2], 6) = 1
          [] k = "channel_ocl" -> Bit(values[2], 5) = 1
          [] k = "channel_ocl_status" -> [i \in 1..8 |-> Bit(values[1], i - 1) = 1]
          [] k = "ovp" -> Bit(values[2], 4) = 1
          [] k = "uvp" -> Bit(values[2], 3) = 1
          [] k = "otp" -> Bit(values[2], 7) = 1]

\* up9512.py line 180-219: the snapshot of a list of values
Measurements(values) ==
    IF Len(values) < 8 THEN [out |-> "None", num |-> NoNum]
    ELSE [out |-> "data",
          num |-> [voltage |-> Voltage(values), phases |-> OperatingPhases(values),
                   current |-> Current(values), power |-> Power(values),
                   protections |-> ActiveProtections(values)]]

\* ncp4206.py line 62: sum(1 for i in range(6) if phase_status[0] & (1 << i))
PhaseCount(b) ==
    Bit(b, 0) + Bit(b, 1) + Bit(b, 2) + Bit(b, 3) + Bit(b, 4) + Bit(b, 5)

\* the value lists the bridge may report for the eight registers: any byte
\* as the protection indicator or as the voltage code, each other register
\* at one of its extremes; and lists that are one value short
ValueLists ==
    {[i \in 1..8 |-> IF i = pos THEN x ELSE IF i \in hi THEN MaxByte ELSE 0] :
         x \in 0..MaxByte, pos \in {2, 3}, hi \in SUBSET (1..8)}
    \cup {[i \in 1..7 |-> f] : f \in {0, MaxByte}}

\* more value lists: any enable nibble in MISC1 with any protection indicator
\* and a per-phase indicator of one phase, or of all phases but one
EnableLists ==
    {[i \in 1..8 |-> IF i = 1 THEN ind2 ELSE IF i = 2 THEN ind
                      ELSE IF i = 8 THEN misc1 ELSE 1] :
         ind2 \in {2, 253}, ind \in 0..MaxByte, misc1 \in 0..15}

\* up9512.py line 180-219: get_measurements decodes the values read_registers gave
UpMeasure(values) ==
    /\ dec.pc = "idle"
    /\ dec' = [dec EXCEPT !.pc = "done", !.dev = "UP9512",
                          !.method = "get_measurements", !.raw = values,
                          !.out = Measurements(values).out,
                          !.num = Measurements(values).num]
    /\ UNCHANGED <<waitVars, sessVars, enumVars, bulk>>

\* ncp4206.py line 59-63: get_phase_count decodes the byte read_registers gave
NcpPhaseCount(b) ==
    /\ dec.pc = "idle"
    /\ dec' = [dec EXCEPT !.pc = "done", !.dev = "NCP4206",
                          !.method = "get_phase_count", !.raw = <<b>>,
                          !.out = "data",
                          !.num = [NoNum EXCEPT !.phases = PhaseCount(b)]]
    /\ UNCHANGED <<waitVars, sessVars, enumVars, bulk>>

\* no decoding has been done yet
Fresh == dec.pc = "idle"

DecodeNext ==
    \/ Fresh /\ \E values \in ValueLists \cup EnableLists : UpMeasure(values)
    \/ Fresh /\ \E b \in 0..MaxByte : NcpPhaseCount(b)

SpecDecode ==
    /\ Init
    /\ [][DecodeNext /\ UNCHANGED <<readerVars, mock, lifeVars>>]_vars

-----------------------------------------------------------------------------
(* Transport write faults: self.ser.write raises inside send_command while *)
(* select_device, bulk_rw or get_devices sends its command                 *)

\* manager.py line 73-90: the flags are set, then ser.write raises; the
\* try/finally unlocks and lets the exception leave send_command.  Nothing
\* reaches the bridge
SendFault(a, paused) ==
    /\ is_paused' = PausedAfterSend(a, paused)
    /\ is_active' = ActiveAfterSend(a, is_active)
    /\ UNCHANGED <<wire, sent>>

\* no operation of the caller is in progress, and it may start another one
Quiet ==
    /\ op.ops + bulk.calls + gd.calls < MaxFaultOps
    /\ op.pc \notin {"wait_resume", "wait_select", "wait_scan"}
    /\ bulk.pc # "wait"
    /\ gd.pc \in {"idle", "done", "raised"}

\* manager.py line 153-154 or 160: the first send_command of select_device
\* raises; select_device has no handler, the exception reaches its caller
SelectStartFault(a) ==
    /\ op.pc \in {"idle", "done"}
    /\ op.ops < MaxOps
    /\ SendFault(IF is_paused THEN "resume" ELSE "select", is_paused)
    /\ op' = [op EXCEPT !.name = "select", !.pc = "raised", !.addr7 = a,
                        !.ops = @ + 1, !.was_paused = is_paused,
                        !.resume = "none", !.select_sent = FALSE,
                        !.result = FALSE]
    /\ UNCHANGED <<current_device, waitVars>>

\* manager.py line 156-160: the resume wait is over and the send_command of
\* the select raises
SelectAfterResumeFault ==
    /\ op.pc = "wait_resume"
    /\ w[1].pc = "done"
    /\ SendFault("select", IF AckOK(w[1].result) THEN FALSE ELSE is_paused)
    /\ op' = [op EXCEPT !.pc = "raised",
                        !.resume = IF AckOK(w[1].result) THEN "ok" ELSE "failed"]
    /\ UNCHANGED <<current_device, waitVars>>

\* manager.py line 187-201: the send_command of bulk_rw raises; the handler
\* of bulk_rw logs the exception and returns None
BulkFault ==
    /\ bulk.pc \in {"idle", "done"}
    /\ bulk.calls < MaxOps
    /\ SendFault("bulk_rw", is_paused)
    /\ bulk' = [bulk EXCEPT !.pc = "done", !.calls = @ + 1, !.result = None,
                            !.snapshot = Snapshot(None)]
    /\ UNCHANGED <<current_device, op, waitVars, enumVars>>

\* manager.py line 293: the send_command of an attempt of get_devices raises;
\* get_devices has no handler, the exception reaches its caller
GdFault ==
    /\ gd.pc = "attempt"
    /\ SendFault("get_devices", is_paused)
    /\ gd' = [gd EXCEPT !.pc = "raised"]
    /\ UNCHANGED <<current_device, op, waitVars, devices, ctor>>

FaultNext ==
    \/ \E a \in Addrs : CallerTurn /\ Quiet /\ SelectStart(a) /\ UNCHANGED <<enumVars, bulk>>
    \/ \E a \in Addrs : CallerTurn /\ Quiet /\ SelectStartFault(a)
                                   /\ UNCHANGED <<enumVars, bulk>>
    \/ CallerTurn /\ SelectAfterResume /\ UNCHANGED <<enumVars, bulk>>
    \/ CallerTurn /\ SelectAfterResumeFault /\ UNCHANGED <<enumVars, bulk>>
    \/ CallerTurn /\ SelectFinish /\ UNCHANGED <<enumVars, bulk>>
    \/ CallerTurn /\ Quiet /\ BulkCall
    \/ CallerTurn /\ Quiet /\ BulkFault
    \/ CallerTurn /\ BulkReturn
    \/ CallerTurn /\ Quiet /\ CallerEnum /\ UNCHANGED bulk
    \/ CallerTurn /\ GdStep /\ UNCHANGED bulk
    \/ CallerTurn /\ GdFault /\ UNCHANGED bulk
    \/ WaitStep(1) /\ UNCHANGED <<sessVars, enumVars, bulk>>
    \/ Tick /\ UNCHANGED <<sessVars, enumVars, bulk>>
    \/ Settled /\ ClockRestart /\ UNCHANGED <<sessVars, enumVars, bulk>>
    \/ BridgeTurn /\ \E kind \in EnumKinds : BridgeEnumReply(kind) /\ UNCHANGED bulk
    \/ BridgeTurn /\ \E kind \in BulkKinds : BridgeBulkReply(kind)
    \/ BridgeTurn /\ \E st \in {"OK", "ERROR"} : BridgeOtherReply(st) /\ UNCHANGED bulk
    \/ BridgeTurn /\ BridgeSilent /\ UNCHANGED <<enumVars, bulk>>

SpecFault ==
    /\ Init
    /\ [][FaultNext /\ UNCHANGED <<readerVars, dec, mock, lifeVars>>]_vars

-----------------------------------------------------------------------------
(* MockSerial: the transport of developer mode, which answers a command    *)
(* inside write() by appending the reply line to its _buffer               *)

\* the actions of the wire protocol
WireActions == {"scan", "get_devices", "select", "resume", "pause", "get_status",
                "bulk_rw"}

\* the commands written: those of the wire protocol and set_lcs_phases, which
\* the mock also knows; a select names an address; a bulk_rw carries writes,
\* a list of registers to read (0x2D = 45, 0x3B = 59), both, or neither
MockCommands ==
    {[action |-> a, addr |-> 0, writes |-> FALSE, reads |-> <<>>] :
         a \in (WireActions \cup {"set_lcs_phases"}) \ {"select"}}
    \cup {[action |-> "select", addr |-> a, writes |-> FALSE, reads |-> <<>>] :
              a \in Addrs}
    \cup {[action |-> "bulk_rw", addr |-> 0, writes |-> TRUE, reads |-> r] :
              r \in {<<>>, <<45>>}}
    \cup {[action |-> "bulk_rw", addr |-> 0, writes |-> FALSE, reads |-> r] :
              r \in {<<45>>, <<59, 45>>}}

\* mock_serial.py line 85-116: the value reported for a register; jitter is
\* the random.randint(-2, 2) of line 93
MockValue(reg, selected, jitter) ==
    IF selected = 37
    THEN IF reg = 45 THEN 120 + jitter ELSE IF reg = 59 THEN 4 ELSE 0
    ELSE IF selected = 60 THEN 60 ELSE 66

\* mock_serial.py line 29-122: the replies write() builds for a command: one
\* for an action it has a branch for, none otherwise; a bulk_rw without
\* writes and without reads gets none either, and one with writes gets the
\* reply without values whether or not it also has reads (line 77-83)
MockReplies(cmd, selected, jitter) ==
    LET a == cmd.action
        plain == [action |-> a, status |-> "OK", has_values |-> FALSE,
                  values |-> <<>>]
    IN  IF a = "get_devices" THEN <<[plain EXCEPT !.status = "None"]>>
        ELSE IF a \in {"resume", "pause", "select", "get_status", "set_lcs_phases"}
        THEN <<plain>>
        ELSE IF a = "bulk_rw"
        THEN IF cmd.writes THEN <<plain>>
             ELSE IF cmd.reads # <<>>
             THEN <<[plain EXCEPT !.has_values = TRUE, !.values =
                        [i \in 1..Len(cmd.reads) |->
                             MockValue(cmd.reads[i], selected, jitter)]]>>
             ELSE <<>>
        ELSE <<>>

\* mock_serial.py line 23-127: write(data): the command is parsed and kept,
\* the fields the action changes are set, and the reply line, if there is
\* one, is appended to _buffer
MockWrite(cmd, jitter) ==
    /\ Len(mock.log) < MaxMockWrites
    /\ LET cid == Len(sent) + 1
           selected == IF cmd.action = "select" THEN cmd.addr
                       ELSE mock.selected_device
           replies == MockReplies(cmd, selected, jitter)
       IN  /\ mock' = [mock EXCEPT
                          !.last_command = cid,
                          !.selected_device = selected,
                          !.paused = IF cmd.action = "resume" THEN FALSE
                                     ELSE IF cmd.action = "pause" THEN TRUE ELSE @,
                          !.buffer = @ \o replies,
                          !.log = Append(@, [cid |-> cid, action |-> cmd.action,
                                             reads |-> cmd.reads,
                                             selected |-> selected,
                                             replies |-> replies])]
           /\ sent' = Append(sent, [cid |-> cid, action |-> cmd.action,
                                    addr |-> cmd.addr])
    /\ UNCHANGED <<is_paused, is_active, current_device, op, wire, waitVars,
                   readerVars, enumVars, bulk, dec, lifeVars>>

\* mock_serial.py line 17-21 and 132-139: read(in_waiting) takes the whole
\* first line off _buffer
MockRead ==
    /\ mock.buffer # <<>>
    /\ mock' = [mock EXCEPT !.buffer = Tail(@)]
    /\ UNCHANGED <<waitVars, sessVars, readerVars, enumVars, bulk, dec, lifeVars>>

MockNext ==
    \/ \E cmd \in MockCommands, jitter \in -2..2 : MockWrite(cmd, jitter)
    \/ MockRead

SpecMock == Init /\ [][MockNext]_vars

-----------------------------------------------------------------------------
(* send_command statement by statement, with its lock, and close() *)

Closer == 3           \* the thread that calls close(); the senders are the Callers

\* line 73-83: the flags are set and the command is logged
SndCall(t, a) ==
    /\ snd[t].pc \in {"idle", "done"}
    /\ snd[t].calls < MaxOps
    /\ is_paused' = PausedAfterSend(a, is_paused)
    /\ is_active' = ActiveAfterSend(a, is_active)
    /\ snd' = [snd EXCEPT ![t] = [pc |-> "acquire", action |-> a, raised |-> FALSE,
                                  calls |-> @.calls + 1]]
    /\ UNCHANGED <<current_device, op, wire, sent, running, is_open, lock, cl, rd>>

\* line 85: self.lock.lock() returns when the mutex is free
SndLock(t) ==
    /\ snd[t].pc = "acquire"
    /\ lock = 0
    /\ lock' = t
    /\ snd' = [snd EXCEPT ![t].pc = "write"]
    /\ UNCHANGED <<sessVars, running, is_open, cl, rd>>

\* line 87-88: self.ser.write(...) is entered
SndWriteEnter(t) ==
    /\ snd[t].pc = "write"
    /\ snd' = [snd EXCEPT ![t].pc = "in_write"]
    /\ UNCHANGED <<sessVars, running, is_open, lock, cl, rd>>

\* faulty variant of AfterWrite: an exception of the write skips the unlock
AfterWriteNoFinally(raised) == IF raised THEN "done" ELSE "release"

\* line 86-90: try: ... finally: self.lock.unlock(), on both exits of the write
AfterWrite(raised) == "release"

\* line 88: self.ser.write(...) returns, or raises
SndWriteExit(t, ok) ==
    /\ snd[t].pc = "in_write"
    /\ LET cmd == [cid |-> Len(sent) + 1, action |-> snd[t].action, addr |-> 0] IN
       IF ok /\ is_open
       THEN wire' = Append(wire, cmd) /\ sent' = Append(sent, cmd)
       ELSE UNCHANGED <<wire, sent>>
    /\ snd' = [snd EXCEPT ![t].pc = AfterWrite(~(ok /\ is_open)),
                          ![t].raised = ~(ok /\ is_open)]
    /\ UNCHANGED <<is_paused, is_active, current_device, op, running, is_open, lock,
                   cl, rd>>

\* line 89-90: finally: self.lock.unlock()
SndUnlock(t) ==
    /\ snd[t].pc = "release"
    /\ lock' = 0
    /\ snd' = [snd EXCEPT ![t].pc = "done"]
    /\ UNCHANGED <<sessVars, running, is_open, cl, rd>>

SndStep(t) ==
    \/ SndLock(t)
    \/ SndWriteEnter(t)
    \/ \E ok \in BOOLEAN : SndWriteExit(t, ok)
    \/ SndUnlock(t)

\* line 231-234: close() is called and calls _send_pause
CloseCall ==
    /\ cl.pc = "idle"
    /\ cl' = [cl EXCEPT !.pc = "pause"]
    /\ UNCHANGED <<sessVars, running, is_open, lock, snd, rd>>

\* line 224-226: if self.ser and self.ser.is_open: self.ser.write(...) is entered
ClosePauseEnter ==
    /\ cl.pc = "pause"
    /\ IF is_open
       THEN cl' = [cl EXCEPT !.pc = "in_pause_write"]
       ELSE cl' = [cl EXCEPT !.pc = "clear_flag", !.pause = "skipped"]
    /\ UNCHANGED <<sessVars, running, is_open, lock, snd, rd>>

\* faulty variant of AfterPauseWrite: a failed pause write ends close()
AfterPauseWriteAbort(ok) == IF ok THEN "clear_flag" ELSE "done"

\* line 228-229 and 237: except: pass; close() goes on with the stop flag
AfterPauseWrite(ok) == "clear_flag"

\* line 226-229: the write of the pause returns (then time.sleep(0.01)), or raises
ClosePauseExit(ok) ==
    /\ cl.pc = "in_pause_write"
    /\ LET cmd == [cid |-> Len(sent) + 1, action |-> "pause", addr |-> 0] IN
       IF ok
       THEN wire' = Append(wire, cmd) /\ sent' = Append(sent, cmd)
       ELSE UNCHANGED <<wire, sent>>
    /\ cl' = [cl EXCEPT !.pc = AfterPauseWrite(ok),
                        !.pause = IF ok THEN "written" ELSE "failed",
                        !.events = Append(@, IF ok THEN "pause_written"
                                                   ELSE "pause_failed")]
    /\ UNCHANGED <<is_paused, is_active, current_device, op, running, is_open, lock,
                   snd, rd>>

\* line 237: self.running[0] = False
CloseClearFlag ==
    /\ cl.pc = "clear_flag"
    /\ running' = FALSE
    /\ cl' = [cl EXCEPT !.pc = "wait_reader", !.events = Append(@, "flag_cleared")]
    /\ UNCHANGED <<sessVars, is_open, lock, snd, rd>>

\* line 240: self.threadpool.waitForDone(500) returns: the reader is done, or
\* the 500 ms are over
CloseWaitDone ==
    /\ cl.pc = "wait_reader"
    /\ cl' = [cl EXCEPT !.pc = "drain",
                        !.waited = IF rd.pc = "stopped" THEN "reader_done"
                                                        ELSE "timed_out",
                        !.events = Append(@, "waited")]
    /\ UNCHANGED <<sessVars, running, is_open, lock, snd, rd>>

\* line 243-247: one message is taken off the queue, or the queue is empty
CloseDrain ==
    /\ cl.pc = "drain"
    /\ IF response_queue # <<>>
       THEN response_queue' = Tail(response_queue) /\ UNCHANGED cl
       ELSE cl' = [cl EXCEPT !.pc = "close_port"] /\ UNCHANGED response_queue
    /\ UNCHANGED <<now, w, nextId, returned, sessVars, running, is_open, lock, snd, rd>>

\* line 250-252: if ... self.ser.is_open: self.ser.close()
ClosePort ==
    /\ cl.pc = "close_port"
    /\ is_open' = FALSE
    /\ cl' = [cl EXCEPT !.pc = "done",
                        !.events = IF is_open THEN Append(@, "closed") ELSE @]
    /\ UNCHANGED <<sessVars, running, lock, snd, rd>>

\* the steps of close() that leave the queue alone
CloseStep ==
    \/ CloseCall
    \/ ClosePauseEnter
    \/ \E ok \in BOOLEAN : ClosePauseExit(ok)
    \/ CloseClearFlag
    \/ CloseWaitDone
    \/ ClosePort

\* the threads that are inside self.ser.write
InWrite ==
    {t \in Callers : snd[t].pc = "in_write"}
        \cup (IF cl.pc = "in_pause_write" THEN {Closer} ELSE {})

LockNext ==
    \/ \E t \in Callers, a \in {"pause", "resume"} : SndCall(t, a) /\ UNCHANGED waitVars
    \/ \E t \in Callers : SndStep(t) /\ UNCHANGED waitVars
    \/ CloseStep /\ UNCHANGED waitVars
    \/ CloseDrain

SpecLock ==
    /\ Init
    /\ [][LockNext /\ UNCHANGED <<readerVars, enumVars, bulk, dec, mock>>]_vars

-----------------------------------------------------------------------------
(* The Frame Reader: SerialWorker.run on a byte stream                     *)
(*                                                                         *)
(* Bytes: "{" and "}" open and close a JSON object, "a" stands for the     *)
(* member "action": "A", "n" is the line feed, "s" a space, and "L" "C"    *)
(* are the lead and the continuation byte of one two-byte UTF-8 character, *)
(* which decodes to the character "U" (a character of a string value).     *)
(* "1" is a digit.                                                         *)

Bytes == {"{", "}", "a", "n", "s", "L", "C"}

\* line 405: data.decode(errors='ignore') of one chunk: a lead byte with its
\* continuation byte is one character; a lead byte without one (also at the
\* end of the chunk) and a continuation byte without lead are left out
RECURSIVE Decode(_)
Decode(bs) ==
    IF bs = <<>> THEN <<>>
    ELSE IF Head(bs) = "L"
         THEN IF Len(bs) >= 2 /\ bs[2] = "C"
              THEN <<"U">> \o Decode(Tail(Tail(bs)))
              ELSE Decode(Tail(bs))
         ELSE IF Head(bs) = "C"
              THEN Decode(Tail(bs))
              ELSE <<Head(bs)>> \o Decode(Tail(bs))

\* index of the first line feed of s, 0 when it has none
FirstFeed(s) ==
    IF \E i \in 1..Len(s) : s[i] = "n"
    THEN CHOOSE i \in 1..Len(s) : s[i] = "n" /\ \A j \in 1..(i - 1) : s[j] # "n"
    ELSE 0

\* line 411: line.strip()
RECURSIVE Strip(_)
Strip(l) ==
    IF l = <<>> THEN <<>>
    ELSE IF Head(l) = "s" THEN Strip(Tail(l))
    ELSE IF l[Len(l)] = "s" THEN Strip(SubSeq(l, 1, Len(l) - 1))
    ELSE l

\* the tokens of a line, white space between them left out
Tokens(l) == SelectSeq(l, LAMBDA ch : ch # "s")

\* a JSON object: braces around members
IsObject(l) ==
    LET t == Tokens(l) IN
    /\ Len(t) >= 2
    /\ t[1] = "{"
    /\ t[Len(t)] = "}"
    /\ \A i \in 2..(Len(t) - 1) : t[i] \in {"a", "U"}

\* a JSON number: digits only ("1" is the digit)
IsNumber(l) == l # <<>> /\ \A i \in 1..Len(l) : l[i] = "1"

\* line 413: json.loads(line) does not raise JSONDecodeError: any JSON value
\* parses, an object as well as a bare number
IsJson(l) == IsObject(l) \/ IsNumber(l)

\* line 413: the value json.loads(line) returns.  An object is a dict, whose
\* field action is what get("action") gives ("None" without that member); a
\* number is an int: it has no get, and so no field action here
Loads(l) ==
    IF IsNumber(l) THEN [number |-> l]
    ELSE LET t == Tokens(l)
             members == SubSeq(t, 2, Len(t) - 1)
         IN  [action |-> IF \E i \in 1..Len(members) : members[i] = "a"
                         THEN "A" ELSE "None",
              body |-> members]

\* faulty variant of AfterBadLine: the rest of the buffer is thrown away with the line
AfterBadLineClear(rest) == <<>>

\* line 417-419: the buffer after a line that raised JSONDecodeError
AfterBadLine(rest) == rest

\* line 408-419: while '\n' in self.buffer: split one line off, strip, parse, put
RECURSIVE Drain(_, _)
Drain(buf, q) ==
    LET i == FirstFeed(buf) IN
    IF i = 0 THEN [buffer |-> buf, queue |-> q]
    ELSE LET line == Strip(SubSeq(buf, 1, i - 1))
             rest == SubSeq(buf, i + 1, Len(buf))
         IN  IF line = <<>> THEN Drain(rest, q)
             ELSE IF IsJson(line) THEN Drain(rest, Append(q, Loads(line)))
             ELSE Drain(AfterBadLine(rest), q)

\* line 403-419: one chunk is decoded, appended to the buffer and drained
Feed(buf, q, data) == Drain(buf \o Decode(data), q)

\* line 396-425: one iteration of run() that finds bytes waiting: all of them
\* are read.  (With in_waiting = 0 the iteration changes nothing.)
ReaderRead ==
    /\ serial_in # <<>>
    /\ LET r == Feed(buffer, response_queue, serial_in) IN
       /\ buffer' = r.buffer
       /\ response_queue' = r.queue
    /\ text' = text \o Decode(serial_in)
    /\ serial_in' = <<>>
    /\ reads' = reads + 1
    /\ UNCHANGED <<stream, now, w, nextId, returned, sessVars, restVars>>

\* the bridge's next byte reaches the transport
TransportArrive(b) ==
    /\ Len(stream) < MaxStream
    /\ serial_in' = Append(serial_in, b)
    /\ stream' = Append(stream, b)
    /\ UNCHANGED <<buffer, text, reads, waitVars, sessVars, restVars>>

ReaderNext ==
    \/ \E b \in Bytes : TransportArrive(b)
    \/ ReaderRead

SpecReader == Init /\ [][ReaderNext]_vars

-----------------------------------------------------------------------------
(* The Frame Reader feeding a wait_response call *)

FrameBytes == {"{", "}", "a", "1", "n"}

\* the caller makes one wait_response call, with the shortest timeout
FrameCallerWait ==
    /\ w[1].pc = "idle"
    /\ \E a \in Actions : WaitCall(1, a, PollTicks)

\* the bridge's next byte reaches the transport
FrameArrive(b) ==
    /\ Len(stream) < MaxFrameStream
    /\ serial_in' = Append(serial_in, b)
    /\ stream' = Append(stream, b)
    /\ UNCHANGED <<buffer, text, reads, waitVars, sessVars, restVars>>

FrameNext ==
    \/ \E b \in FrameBytes : FrameArrive(b)
    \/ ReaderRead
    \/ (FrameCallerWait \/ WaitStep(1) \/ Tick)
           /\ UNCHANGED <<sessVars, readerVars, restVars>>

SpecFrame == Init /\ [][FrameNext]_vars

\* lines the bridge sends unasked: a bare number, an empty object, an object
FlushLines == {<<"1", "n">>, <<"{", "}", "n">>, <<"{", "a", "}", "n">>}

\* the bridge's next line reaches the transport before get_devices is called
FlushArrive(l) ==
    /\ Len(SelectSeq(stream, LAMBDA b : b = "n")) < MaxFlushLines
    /\ serial_in' = serial_in \o l
    /\ stream' = stream \o l
    /\ UNCHANGED <<buffer, text, reads, waitVars, sessVars, restVars>>

\* get_devices is called after lines of the bridge have arrived; the bridge
\* is silent once the call has begun
FlushNext ==
    \/ gd.pc = "idle" /\ \E l \in FlushLines : FlushArrive(l)
    \/ gd.pc = "idle" /\ ReaderRead
    \/ CallerTurn /\ CallerEnum /\ UNCHANGED <<readerVars, bulk, dec, mock, lifeVars>>
    \/ GdProgress /\ UNCHANGED <<readerVars, bulk, dec, mock, lifeVars>>
    \/ BridgeTurn /\ BridgeSilent
           /\ UNCHANGED <<enumVars, readerVars, bulk, dec, mock, lifeVars>>

SpecFlush == Init /\ [][FlushNext]_vars

-----------------------------------------------------------------------------
(* SerialWorker.run loop by loop, next to close() *)

LifeBytes == {"{", "}", "n"}

\* line 396: while self.running_flag[0]
RdTest ==
    /\ rd.pc = "test"
    /\ rd' = [rd EXCEPT !.pc = IF running THEN "check" ELSE "stopped"]
    /\ UNCHANGED <<waitVars, sessVars, readerVars, running, is_open, lock, snd, cl>>

\* the loop body that ends now began before, or after, the flag was cleared
BodyEnds(r) == [r EXCEPT !.pc = "test",
                         !.after_clear = IF running THEN @ ELSE @ + 1]

\* line 397-399: if not self.ser.is_open: time.sleep(0.1); continue
RdCheck ==
    /\ rd.pc = "check"
    /\ rd' = IF is_open THEN [rd EXCEPT !.pc = "poll"] ELSE BodyEnds(rd)
    /\ UNCHANGED <<waitVars, sessVars, readerVars, running, is_open, lock, snd, cl>>

\* faulty variant of AfterReadFault: the exception ends run()
AfterReadFaultStop(r) == [r EXCEPT !.pc = "stopped", !.faults = @ + 1]

\* line 420-425: the exception is caught and logged; time.sleep(0.001); the
\* loop goes on
AfterReadFault(r) == [BodyEnds(r) EXCEPT !.faults = @ + 1]

\* line 402-403: self.ser.in_waiting or self.ser.read raises: always when the
\* port has been closed meanwhile, now and then when it is open
RdFault ==
    /\ rd.pc = "poll"
    /\ ~is_open \/ rd.faults < MaxFaults
    /\ rd' = AfterReadFault(rd)
    /\ UNCHANGED <<waitVars, sessVars, readerVars, running, is_open, lock, snd, cl>>

\* faulty variant of PutReady: put() hands the message to a waiting consumer
PutNeedsWaiter(q, ws) == \E c \in Callers : ws[c].pc = "get"

\* line 36 and 416: Queue() has no maximum size: put() never blocks
PutReady(q, ws) == TRUE

\* line 402-425: the rest of the body without exception: the bytes waiting, if
\* any, are read, decoded and drained into the queue; time.sleep(0.001)
RdPoll ==
    /\ rd.pc = "poll"
    /\ is_open
    /\ LET r == Feed(buffer, response_queue, serial_in) IN
       /\ r.queue # response_queue => PutReady(response_queue, w)
       /\ buffer' = r.buffer
       /\ response_queue' = r.queue
    /\ text' = text \o Decode(serial_in)
    /\ serial_in' = <<>>
    /\ reads' = IF serial_in # <<>> THEN reads + 1 ELSE reads
    /\ rd' = BodyEnds(rd)
    /\ UNCHANGED <<now, w, nextId, returned, sessVars, stream, running, is_open, lock,
                   snd, cl>>

RdStep == RdTest \/ RdCheck \/ RdFault \/ RdPoll

\* the bridge's next byte reaches the open transport
LifeArrive(b) ==
    /\ is_open
    /\ Len(stream) < MaxLifeStream
    /\ serial_in' = Append(serial_in, b)
    /\ stream' = Append(stream, b)
    /\ UNCHANGED <<buffer, text, reads, waitVars, sessVars, lifeVars>>

LifeNext ==
    \/ RdStep
    \/ CloseStep /\ UNCHANGED <<waitVars, readerVars>>
    \/ CloseDrain /\ UNCHANGED readerVars
    \/ \E b \in LifeBytes : LifeArrive(b)

SpecLife ==
    /\ Init
    /\ [][LifeNext /\ UNCHANGED <<enumVars, bulk, dec, mock>>]_vars

\* manager.py line 71-90: send_command on a closed port: the flags are set,
\* the write raises and the exception reaches the caller
ClosedSend(a) ==
    /\ op.pc \in {"idle", "done"}
    /\ op.ops < MaxOps
    /\ SendFault(a, is_paused)
    /\ op' = [op EXCEPT !.name = "send", !.pc = "raised", !.ops = @ + 1]
    /\ UNCHANGED <<current_device, waitVars>>

\* the one caller is in none of its calls, and may make another one
Between ==
    /\ op.pc \notin {"wait_resume", "wait_select", "wait_scan"}
    /\ bulk.pc # "wait"
    /\ gd.pc \in {"idle", "done", "raised"}
    /\ cl.pc \in {"idle", "done"}

\* the caller may begin another operation on the manager
MayCall == Between /\ op.ops + bulk.calls + gd.calls < MaxFlagOps

\* one caller makes its calls one after the other: send_command,
\* select_device, bulk_rw, get_devices and close; once the port is closed
\* every write raises
FlagNext ==
    \/ \E a \in {"pause", "resume"} :
           CallerTurn /\ MayCall /\ is_open /\ CallerSend(a)
               /\ UNCHANGED <<enumVars, bulk, lifeVars>>
    \/ \E a \in {"pause", "resume"} :
           CallerTurn /\ MayCall /\ ~is_open /\ ClosedSend(a)
               /\ UNCHANGED <<enumVars, bulk, lifeVars>>
    \/ \E a \in Addrs : CallerTurn /\ MayCall /\ is_open /\ SelectStart(a)
                              /\ UNCHANGED <<enumVars, bulk, lifeVars>>
    \/ \E a \in Addrs : CallerTurn /\ MayCall /\ ~is_open /\ SelectStartFault(a)
                              /\ UNCHANGED <<enumVars, bulk, lifeVars>>
    \/ CallerTurn /\ SelectAfterResume /\ UNCHANGED <<enumVars, bulk, lifeVars>>
    \/ CallerTurn /\ SelectFinish /\ UNCHANGED <<enumVars, bulk, lifeVars>>
    \/ CallerTurn /\ MayCall /\ is_open /\ BulkCall /\ UNCHANGED lifeVars
    \/ CallerTurn /\ MayCall /\ ~is_open /\ BulkFault /\ UNCHANGED lifeVars
    \/ CallerTurn /\ BulkReturn /\ UNCHANGED lifeVars
    \/ CallerTurn /\ MayCall /\ CallerEnum /\ UNCHANGED <<bulk, lifeVars>>
    \/ CallerTurn /\ is_open /\ GdStep /\ UNCHANGED <<bulk, lifeVars>>
    \/ CallerTurn /\ ~is_open /\ (GdFlush \/ GdFault) /\ UNCHANGED <<bulk, lifeVars>>
    \/ CallerTurn /\ (Between \/ cl.pc # "idle") /\ CloseStep
           /\ UNCHANGED <<waitVars, enumVars, bulk>>
    \/ CloseDrain /\ UNCHANGED <<enumVars, bulk>>
    \/ WaitStep(1) /\ UNCHANGED <<sessVars, enumVars, bulk, lifeVars>>
    \/ Tick /\ UNCHANGED <<sessVars, enumVars, bulk, lifeVars>>
    \/ Settled /\ ClockRestart /\ UNCHANGED <<sessVars, enumVars, bulk, lifeVars>>
    \/ BridgeTurn /\ BridgeEnumReply("list") /\ UNCHANGED <<bulk, lifeVars>>
    \/ BridgeTurn /\ BridgeBulkReply("values") /\ UNCHANGED lifeVars
    \/ BridgeTurn /\ \E st \in {"OK", "ERROR"} : BridgeOtherReply(st)
                                                  /\ UNCHANGED <<bulk, lifeVars>>
    \/ BridgeTurn /\ BridgeSilent /\ UNCHANGED <<enumVars, bulk, lifeVars>>

SpecFlags ==
    /\ Init
    /\ [][FlagNext /\ UNCHANGED <<readerVars, dec, mock>>]_vars

\* the one caller calls bulk_rw before close() and after it; a write to the
\* closed port raises when the transport is a serial.Serial, and is taken
\* like any other when it is a MockSerial, whose write does not look at
\* is_open (mock_serial.py line 23-130, 141-142)
ShutNext ==
    \/ CallerTurn /\ cl.pc \in {"idle", "done"} /\ BulkCall /\ UNCHANGED lifeVars
    \/ CallerTurn /\ cl.pc = "done" /\ ~is_open /\ BulkFault /\ UNCHANGED lifeVars
    \/ CallerTurn /\ BulkReturn /\ UNCHANGED lifeVars
    \/ WaitStep(1) /\ UNCHANGED <<sessVars, enumVars, bulk, lifeVars>>
    \/ Tick /\ UNCHANGED <<sessVars, enumVars, bulk, lifeVars>>
    \/ Settled /\ ClockRestart /\ UNCHANGED <<sessVars, enumVars, bulk, lifeVars>>
    \/ BridgeTurn /\ \E kind \in BulkKinds : BridgeBulkReply(kind) /\ UNCHANGED lifeVars
    \/ BridgeTurn /\ BridgeSilent /\ UNCHANGED <<enumVars, bulk, lifeVars>>
    \/ bulk.pc # "wait" /\ CloseStep /\ UNCHANGED <<waitVars, enumVars, bulk>>
    \/ CloseDrain /\ UNCHANGED <<enumVars, bulk>>

SpecShut ==
    /\ Init
    /\ [][ShutNext /\ UNCHANGED <<readerVars, dec, mock>>]_vars

\* the reader's thread is scheduled again and again, and its sleeps end
SpecLifeFair ==
    /\ Init
    /\ [][LifeNext /\ UNCHANGED <<enumVars, bulk, dec, mock>>]_vars
    /\ WF_vars(RdStep /\ UNCHANGED <<enumVars, bulk, dec, mock>>)

-----------------------------------------------------------------------------
(* Properties of wait_response with a single caller (SpecWait) *)

\* the messages of s whose action differs from a
Unrelated(s, a) == {s[i] : i \in {j \in 1..Len(s) : s[j].action # a}}

Returned(c) == w[c].pc = "done"

\* C1: when a wait_response(A, t) call has returned, by match or by timeout,
\* every message with an action other than A that it removed from the
\* response queue is on the response queue again.
C1_UnrelatedBackOnQueue ==
    \A c \in Callers :
        Returned(c) =>
            \A m \in Unrelated(w[c].popped, w[c].action) :
                m \in Range(response_queue)

\* a call that set two unrelated messages aside and then found its match
C1_Witness ==
    /\ Returned(1)
    /\ w[1].result # None
    /\ Cardinality(Unrelated(w[1].popped, w[1].action)) >= 2

\* C2: two messages with the same action are never returned against their
\* arrival order: if m1 was enqueued before m2, m2 is not returned before m1.
C2_ArrivalOrderWithinAction ==
    \A i, j \in 1..Len(returned) :
        (i < j /\ returned[i].action = returned[j].action)
            => returned[i].id < returned[j].id

\* C3: when wait_response has returned, every message it put back precedes in
\* the response queue every message that arrived after it.
C3_RequeuedBeforeNewer ==
    \A c \in Callers :
        Returned(c) =>
            \A m \in Unrelated(w[c].popped, w[c].action) :
                \A k \in 1..Len(response_queue) :
                    response_queue[k].id > m.id
                        => PosOf(response_queue, m.id) < k

\* C4: wait_response(A, t) returns a message only if its action is A, and then
\* it is the first message with action A the call dequeued; it returns None
\* only when it dequeued no message with action A before the timeout elapsed.
C4_ReturnsFirstMatch ==
    \A c \in Callers :
        Returned(c) =>
            LET p == w[c].popped
                a == w[c].action
                hits == {i \in 1..Len(p) : p[i].action = a}
            IN  IF w[c].result # None
                THEN /\ w[c].result.action = a
                     /\ hits = {Len(p)}
                     /\ w[c].result = p[Len(p)]
                ELSE /\ hits = {}
                     /\ w[c].ret - w[c].start >= w[c].timeout

\* a call that returned its match after one unrelated message
C4_Witness ==
    /\ Returned(1)
    /\ w[1].result # None
    /\ Len(w[1].popped) >= 2

\* time a call has taken so far, or took when it has returned
Elapsed(c) == (IF Returned(c) THEN w[c].ret ELSE now) - w[c].start

-----------------------------------------------------------------------------
(* Properties of wait_response with concurrent callers (SpecConc) *)

\* every place a message can be: the queue, a side list, or handed to a caller
Holders == response_queue \o w[1].stored \o w[2].stored \o returned

\* C6: no message is returned by more than one wait_response call, and at any
\* time a message is in at most one of the response queue, one waiter's side
\* list and the results handed to callers.
C6_HeldOnce ==
    \A i, j \in 1..Len(Holders) : Holders[i].id = Holders[j].id => i = j

\* both callers are inside wait_response, each with a message set aside, and
\* a message has already been handed out
C6_Witness ==
    /\ w[1].stored # <<>>
    /\ w[2].stored # <<>>
    /\ returned # <<>>

-----------------------------------------------------------------------------
(* Properties of the session (SpecSession) *)

\* C5: the response select_device receives for the select command it sent is
\* the bridge's reply to that same command, never the late reply to an
\* earlier select whose wait had timed out, and it acknowledges the address
\* that was asked for.
C5_ReplyToOwnCommand ==
    (/\ op.name = "select"
     /\ op.pc \in {"wait_select", "done"}
     /\ w[1].pc = "done"
     /\ w[1].result.id # 0)
        => /\ w[1].result.re = op.cmd
           /\ w[1].result.addr = op.addr7

\* C10: select_device called while Paused sends resume and waits for its
\* acknowledgement before it sends select; if the resume is not acknowledged
\* with OK, no select command is sent and the session remains Paused with no
\* device selected.
C10_NoSelectAfterFailedResume ==
    (op.name = "select" /\ op.was_paused) =>
        /\ op.select_sent => op.resume \in {"ok", "failed"}
        /\ op.resume = "failed" =>
              /\ ~op.select_sent
              /\ is_paused
              /\ current_device = NoDevice

\* the acknowledgements with status OK of pause and resume commands that a
\* wait_response call has handed to the caller, in order
PauseAcks ==
    SelectSeq(returned, LAMBDA m : m.action \in {"pause", "resume"} /\ m.status = "OK")

\* the paused state the acknowledgements received so far stand for
AckedPaused ==
    IF PauseAcks = <<>> THEN TRUE ELSE PauseAcks[Len(PauseAcks)].action = "pause"

\* C11: the paused state changes only on acknowledgement: the session is
\* Active only when the last pause or resume acknowledgement received was
\* that of a resume, and Paused otherwise; a pause or resume whose
\* acknowledgement never arrives leaves the paused state as it was.
C11_PausedOnlyOnAck == is_paused = AckedPaused

\* C12: when select_device(addr) has returned: if the acknowledgement of its
\* select command had status OK and carried a device-type name that has a
\* decoder, a decoder for addr is the selected device and the result is
\* success; in every other case (no response, non-OK status, unknown name)
\* no device is selected and the result is failure.
C12_SelectOutcome ==
    (op.name = "select" /\ op.pc = "done") =>
        LET r == w[1].result IN
        IF AckOK(r) /\ r.re = op.cmd /\ r.name \in DEVICE_MAP
        THEN current_device = GetDevice(r.name, op.addr7) /\ op.result
        ELSE current_device = NoDevice /\ ~op.result

-----------------------------------------------------------------------------
(* Properties of a polling caller (SpecPoll) *)

\* the message with this arrival number is on the response queue or on the
\* side list of a call
Held(id) ==
    \/ \E i \in 1..Len(response_queue) : response_queue[i].id = id
    \/ \E c \in Callers : \E i \in 1..Len(w[c].stored) : w[c].stored[i].id = id

\* C20: every message the Frame Reader enqueues eventually leaves the
\* response queue for good, returned to a waiter for its action or discarded
\* after a bounded number of requeue cycles: from some time on it is neither
\* on the queue nor on a side list that will be put back.
C20_EveryMessageLeaves ==
    \A id \in 1..MaxMsgs : <>[](~Held(id))

-----------------------------------------------------------------------------
(* Properties of the constructor (SpecCtor) *)

\* C13 as stated: once the manager has been constructed the session is Paused
\* and no device is selected.
C13_PausedAfterConstruction ==
    ctor.pc = "done" => (is_paused /\ current_device = NoDevice)

\* C13 as the code has it: the session is Paused with no device selected
\* until _initialize has a device list; the constructed manager is Paused with
\* no device selected when the enumeration found no device; when it found
\* one, the constructor has called select_device for the first device: the
\* session is not paused, and a decoder for that address is selected exactly
\* when the select succeeded.
C13_AfterConstruction ==
    /\ ctor.pc \in {"start", "enum"} => (is_paused /\ current_device = NoDevice)
    /\ ctor.pc = "done" =>
          IF devices = <<>>
          THEN is_paused /\ current_device = NoDevice
          ELSE /\ ~is_paused
               /\ op.name = "select" /\ op.addr7 = devices[1].addr7
               /\ IF op.result
                  THEN current_device # NoDevice
                       /\ current_device.addr7 = devices[1].addr7
                  ELSE current_device = NoDevice

\* the constructor found devices and selected the first one
C13_Witness ==
    /\ ctor.pc = "done"
    /\ devices # <<>>
    /\ current_device # NoDevice

-----------------------------------------------------------------------------
(* Properties of get_devices (SpecEnum) *)

\* the get_devices commands the call in progress has sent
GdSends == SelectSeq(gd.log, LAMBDA e : e.ev = "send")

-----------------------------------------------------------------------------
(* Properties of bulk_rw (SpecBulk) *)

\* C15: a bulk_rw whose wait received a reply with status PAUSED returns a
\* 'no data' result that differs from what it returns on a timeout (None),
\* and the decoder builds no snapshot, full or partial, from it.
C15_PausedNotTimeout ==
    (/\ bulk.pc = "done"
     /\ w[1].result.id # 0
     /\ w[1].result.status = "PAUSED")
        => /\ bulk.result # None
           /\ bulk.snapshot = "None"

-----------------------------------------------------------------------------
(* Properties of the write lock (SpecLock) *)

\* C16: at most one thread is inside a transport write at any time, and every
\* thread inside a transport write, the one that writes the pause of close()
\* included, holds the write lock.
C16_WritesUnderLock ==
    /\ Cardinality(InWrite) <= 1
    /\ \A t \in InWrite : lock = t

-----------------------------------------------------------------------------
(* Properties of the Frame Reader (SpecReader) *)

\* the chunks of a byte stream that arrives one whole line per read
RECURSIVE WholeLines(_)
WholeLines(bs) ==
    LET i == FirstFeed(bs) IN
    IF i = 0 THEN <<>>
    ELSE <<SubSeq(bs, 1, i)>> \o WholeLines(SubSeq(bs, i + 1, Len(bs)))

\* the reader's buffer and queue after it has read the given chunks
RECURSIVE FeedAll(_, _, _)
FeedAll(buf, q, chunks) ==
    IF chunks = <<>> THEN [buffer |-> buf, queue |-> q]
    ELSE LET r == Feed(buf, q, Head(chunks))
         IN  FeedAll(r.buffer, r.queue, Tail(chunks))

\* C8: however the byte stream is split into read chunks, once every byte has
\* been read the queue holds exactly the messages, in the same order, that it
\* holds when the stream arrives one whole line per chunk; the bytes after
\* the last line feed stay in the buffer and give no message.
C8_ChunkingIrrelevant ==
    serial_in = <<>> =>
        /\ response_queue = FeedAll(<<>>, <<>>, WholeLines(stream)).queue
        /\ FirstFeed(buffer) = 0

\* the complete lines of a text, without their line feeds
RECURSIVE LinesOf(_)
LinesOf(t) ==
    LET i == FirstFeed(t) IN
    IF i = 0 THEN <<>>
    ELSE <<SubSeq(t, 1, i - 1)>> \o LinesOf(SubSeq(t, i + 1, Len(t)))

\* what follows the last line feed of a text
RECURSIVE Remainder(_)
Remainder(t) ==
    LET i == FirstFeed(t) IN
    IF i = 0 THEN t ELSE Remainder(SubSeq(t, i + 1, Len(t)))

WellFormed(l) == Strip(l) # <<>> /\ IsJson(Strip(l))

Malformed(l) == Strip(l) # <<>> /\ ~IsJson(Strip(l))

\* the messages of the well-formed lines among ls, in order
RECURSIVE MessagesOf(_)
MessagesOf(ls) ==
    IF ls = <<>> THEN <<>>
    ELSE IF WellFormed(Head(ls))
         THEN <<Loads(Strip(Head(ls)))>> \o MessagesOf(Tail(ls))
         ELSE MessagesOf(Tail(ls))

\* C9: a line that fails to parse is dropped without effect on later input:
\* the queue holds exactly the messages of the well-formed lines received so
\* far, in stream order, whatever malformed lines lie between them (also in
\* the same read chunk), and the buffer holds exactly what follows the last
\* line feed.
C9_MalformedLineDropped ==
    /\ response_queue = MessagesOf(LinesOf(text))
    /\ buffer = Remainder(text)

\* one read delivered a malformed line followed by a well-formed one
C9_Witness ==
    /\ reads = 1
    /\ serial_in = <<>>
    /\ Len(LinesOf(text)) = 2
    /\ Malformed(LinesOf(text)[1])
    /\ WellFormed(LinesOf(text)[2])
    /\ Len(response_queue) = 1

-----------------------------------------------------------------------------
(* Properties of close() and of the reader's loop (SpecLife) *)

\* in the history of close(), every e2 has an e1 before it
Before(e1, e2) ==
    \A j \in 1..Len(cl.events) :
        cl.events[j] = e2 => \E i \in 1..(j - 1) : cl.events[i] = e1

\* C17: in close() the pause, when it is written, is written before the
\* transport is closed; the stop flag is cleared before the transport is
\* closed; when close() has returned the transport is closed, also when the
\* pause write failed; and close() goes on from its wait for the reader
\* whether or not the reader has stopped.
C17_CloseOrder ==
    /\ Before("flag_cleared", "closed")
    /\ cl.pause = "written" => Before("pause_written", "closed")
    /\ ~is_open => (~running /\ cl.pause # "none")
    /\ cl.pc = "done" => ~is_open
    /\ cl.pc = "wait_reader" => ENABLED CloseWaitDone

\* close() has returned with the transport closed although the pause write
\* failed and the reader had not stopped within the wait
C17_Witness ==
    /\ cl.pc = "done"
    /\ cl.pause = "failed"
    /\ cl.waited = "timed_out"
    /\ ~is_open

\* C18: an exception raised while polling or reading never ends the reader's
\* loop: the reader has stopped only if the stop flag has been cleared; and
\* once the flag is cleared at most one loop body still ends before the
\* reader stops.
C18_ReaderSurvivesFaults ==
    /\ rd.pc = "stopped" => ~running
    /\ rd.after_clear <= 1
    /\ (rd.pc = "test" /\ ~running) => ENABLED RdTest

\* the reader went on after a read fault of the open transport, read a line,
\* and stopped only when the flag had been cleared, after the body in progress
C18_Witness ==
    /\ rd.pc = "stopped"
    /\ rd.faults >= 1
    /\ rd.after_clear = 1
    /\ reads >= 1

\* the number of complete well-formed lines the transport has delivered
Delivered == Len(MessagesOf(LinesOf(Decode(stream))))

\* C19: with no caller in wait_response, every complete well-formed line the
\* transport has delivered is eventually on the response queue, unless the
\* reader is told to stop or the transport is closed before: the reader
\* never waits for a consumer.
C19_LineReachesQueue ==
    \* a well-formed line takes three bytes at least: "{", "}" and the line feed
    \A n \in 1..(MaxLifeStream \div 3) :
        (Delivered >= n) ~> (Len(response_queue) >= n \/ ~running \/ ~is_open)

\* a well-formed line has been read and put on the queue while no caller was
\* in wait_response and the reader had not been told to stop
C19_Witness ==
    /\ Delivered >= 1
    /\ Len(response_queue) >= 1
    /\ running
    /\ \A c \in Callers : w[c].pc = "idle"

-----------------------------------------------------------------------------
(* Properties of the Frame Reader feeding wait_response (SpecFrame) *)

\* C21: every element on the response queue is a keyed record that has an
\* action field (a bare number, or a record without action, is not enqueued),
\* and no wait_response call fails on an element it takes off the queue.
C21_OnlyActionRecords ==
    /\ \A i \in 1..Len(response_queue) :
           HasGet(response_queue[i]) /\ response_queue[i].action # "None"
    /\ \A c \in Callers : w[c].pc # "raised"

-----------------------------------------------------------------------------
(* Properties of rescan_devices (SpecRescan) *)

\* C22: when rescan_devices has returned the reply of the bridge, the
\* manager's list of descriptors is the list that reply reports: it was
\* replaced as a whole by a new list value.
C22_RescanReplacesList ==
    (op.name = "rescan" /\ op.pc = "done" /\ Usable(w[1].result)) =>
        devices = Descriptors(w[1].result)

-----------------------------------------------------------------------------
(* Properties of the decoders (SpecDecoder) *)

\* C23: a call of get_measurements or get_protection_status, of any decoder,
\* that has returned has sent exactly one bulk_rw command.
C23_OneBulkPerCall ==
    dec.pc = "done" => dec.sends = 1

\* C24: a call of get_measurements or get_protection_status during which
\* bulk_rw gave no data, a reply without values or too few values returns the
\* all-zero snapshot (for the flags: the dict without any flag set) and does
\* not raise.
C24_UnavailableSnapshot ==
    (dec.pc = "done" /\ dec.lacking) => dec.out \in {"zeros", "empty"}

\* C27: every step of a decoder's get_measurements or get_protection_status
\* leaves the paused flag, the active flag, the selected device and the
\* device list as they are, and a command it sends is a bulk_rw, never a
\* select, pause or resume.
C27_DecoderLeavesSession ==
    [][dec' # dec =>
         /\ UNCHANGED <<is_paused, is_active, current_device, devices>>
         /\ \A i \in 1..Len(sent') : i > Len(sent) => sent'[i].action = "bulk_rw"]_vars

\* a decoder call that sent two bulk_rw commands has returned in a session
\* the caller had resumed before
C27_Witness ==
    /\ dec.pc = "done"
    /\ dec.sends >= 2
    /\ ~is_paused
    /\ \E i \in 1..Len(sent) : sent[i].action = "resume"

-----------------------------------------------------------------------------
(* Properties of the decoding of register values (SpecDecode) *)

\* the number of bits set in the byte b
PopCount(b) ==
    Bit(b, 0) + Bit(b, 1) + Bit(b, 2) + Bit(b, 3) + Bit(b, 4) + Bit(b, 5)
        + Bit(b, 6) + Bit(b, 7)

\* the phase-status byte a decoded snapshot was computed from
PhaseByte == IF dec.dev = "UP9512" THEN dec.raw[2] ELSE dec.raw[1]

\* C25: the active-phase count a decoder reports equals the number of bits
\* set in the phase-status byte it read, for every value 0..255 of that
\* byte.
C25_PhaseCountIsPopCount ==
    (dec.pc = "done" /\ dec.out = "data" /\ dec.raw # <<>>) =>
        dec.num.phases = PopCount(PhaseByte)

\* C26: for every voltage code v of a full eight-value reply,
\* UP9512.get_measurements reports v hundredths of a volt (10 mV each),
\* whatever the other seven values are.
C26_VoltageScaling ==
    (dec.pc = "done" /\ dec.dev = "UP9512" /\ Len(dec.raw) = 8) =>
        /\ dec.out = "data"
        /\ dec.num.voltage = dec.raw[3] * 10

\* the voltage code 120 was decoded, next to a register at its largest value
C26_Witness ==
    /\ dec.pc = "done"
    /\ dec.dev = "UP9512"
    /\ Len(dec.raw) = 8
    /\ dec.raw[3] = 120
    /\ dec.raw[4] = MaxByte
    /\ dec.num.voltage = 1200

-----------------------------------------------------------------------------
(* Properties of the operations under transport write faults (SpecFault) *)

\* C28: a write fault while select_device, bulk_rw or get_devices sends its
\* command never leaves the operation as an exception: none of the three is
\* ever ended by one.
C28_WriteFaultRecovered ==
    /\ op.pc # "raised"
    /\ bulk.pc # "raised"
    /\ gd.pc # "raised"

-----------------------------------------------------------------------------
(* Properties of the descriptors of get_devices (SpecPair) *)

\* C29: when get_devices has returned on a reply that carries devices and
\* names, its result has exactly one descriptor per address of the reply, and
\* the i-th descriptor pairs the i-th address with the i-th name.
C29_OnePerAddress ==
    (gd.pc = "done" /\ Usable(w[1].result)) =>
        LET r == w[1].result IN
        /\ Len(gd.result) = Len(r.devices)
        /\ \A i \in 1..Len(r.devices) :
               gd.result[i] = [addr7 |-> r.devices[i], name |-> r.names[i]]

-----------------------------------------------------------------------------
(* Properties of the mock transport (SpecMock) *)

\* C30: for every command of the wire protocol written to the mock, the mock
\* has made available exactly one reply line, and the action of that reply is
\* the action of the command.
C30_MockEchoesAction ==
    \A i \in 1..Len(mock.log) :
        mock.log[i].action \in WireActions =>
            /\ Len(mock.log[i].replies) = 1
            /\ mock.log[i].replies[1].action = mock.log[i].action

\* C31: for every bulk_rw command with a non-empty reads list written to the
\* mock, with or without writes, the one reply carries a values list with
\* one value per requested register, in request order.
C31_ValuesAlignedWithReads ==
    \A i \in 1..Len(mock.log) :
        LET e == mock.log[i] IN
        (e.action = "bulk_rw" /\ e.reads # <<>>) =>
            /\ Len(e.replies) = 1
            /\ e.replies[1].has_values
            /\ Len(e.replies[1].values) = Len(e.reads)
            /\ \E jitter \in -2..2 : \A k \in 1..Len(e.reads) :
                   e.replies[1].values[k] = MockValue(e.reads[k], e.selected, jitter)

\* C32: on every return of wait_response the side list is empty and the
\* messages it put back are the ones it popped and did not return, in the
\* order in which it popped them, on a match and on a timeout alike.
C32_SideListPutBackInOrder ==
    \A c \in DOMAIN w :
        w[c].pc = "done" =>
            /\ w[c].stored = <<>>
            /\ w[c].pushed = IF w[c].result = None
                             THEN w[c].popped
                             ELSE SubSeq(w[c].popped, 1, Len(w[c].popped) - 1)

\* a call that matched after setting two messages aside has returned
C32_Witness ==
    \E c \in DOMAIN w :
        /\ w[c].pc = "done"
        /\ w[c].result # None
        /\ Len(w[c].pushed) >= 2

\* the delays the call in progress has made between attempts
GdDelays == SelectSeq(gd.log, LAMBDA e : e.ev = "delay")

\* C33: get_devices sends exactly one get_devices command per attempt;
\* attempt k waits with a timeout of k x 1.0 s and, when it fails and k < 5,
\* is followed by a delay of k x 0.5 s (none after the fifth); it returns at
\* the first attempt whose reply has both devices and names and sends
\* nothing after that.
C33_AttemptSchedule ==
    gd.pc # "idle" =>
        /\ sent = [i \in 1..Len(sent) |->
                      [cid |-> i, action |-> "get_devices", addr |-> 0]]
        /\ gd.calls = 1 => Len(sent) = Len(GdSends)
        /\ Len(GdSends) = IF gd.pc \in {"flush", "attempt"}
                          THEN gd.attempt - (IF gd.pc = "attempt" THEN 1 ELSE 0)
                          ELSE gd.attempt
        /\ \A k \in 1..Len(GdSends) :
               /\ GdSends[k].attempt = k
               /\ GdSends[k].amount = k * DefaultTimeout
        /\ gd.pc = "wait" => w[1].timeout = gd.attempt * DefaultTimeout
        /\ Len(GdDelays) = IF gd.pc = "retry_sleep" THEN gd.attempt
                           ELSE IF gd.pc = "flush" THEN 0
                           ELSE gd.attempt - 1
        /\ \A k \in 1..Len(GdDelays) :
               /\ k < MaxRetries
               /\ GdDelays[k].attempt = k
               /\ GdDelays[k].amount = k
        /\ gd.pc = "retry_sleep" => ~Usable(w[1].result)
        /\ (gd.pc = "attempt" /\ gd.attempt > 1) => ~Usable(w[1].result)
        /\ (gd.pc = "done" /\ gd.attempt < MaxRetries) => Usable(w[1].result)

\* a call returned the list at its third attempt, after two failed ones
C33_Witness ==
    /\ gd.pc = "done"
    /\ Usable(w[1].result)
    /\ gd.attempt = 3
    /\ Len(GdDelays) = 2

\* C34: get_devices removes every message that is on the response queue
\* when it starts, whatever the message, before it sends its first command,
\* and a message discarded this way is not on the queue, in a side list or
\* returned afterwards.
C34_FlushedBeforeFirstSend ==
    gd.pc \notin {"idle", "flush"} =>
        /\ GdSends = <<>> => response_queue = <<>>
        /\ \A i \in 1..Len(gd.flushed) :
               /\ \A j \in 1..Len(response_queue) : response_queue[j] # gd.flushed[i]
               /\ \A j \in 1..Len(returned) : returned[j] # gd.flushed[i]
               /\ \A j \in 1..Len(w[1].stored) : w[1].stored[j] # gd.flushed[i]

\* C35: once close() has cleared the running flag, a bulk_rw call sends no
\* command to the transport and returns None.
C35_NoBulkAfterStop ==
    [][(~running /\ bulk'.calls # bulk.calls) =>
          (sent' = sent /\ bulk'.pc = "done" /\ bulk'.result = None)]_vars

\* C36: for every full 8-value reply, the power in the snapshot of
\* UP9512.get_measurements equals the voltage in the same snapshot times
\* the current in the same snapshot.
C36_PowerIsVoltageTimesCurrent ==
    (dec.pc = "done" /\ dec.dev = "UP9512" /\ dec.out = "data") =>
        dec.num.power.num * dec.num.current.den
            = dec.num.voltage * dec.num.current.num * dec.num.power.den

\* bit i of the byte b is set
Flag(b, i) == (b \div (2 ^ i)) % 2 = 1

\* the key k is in the protections of the snapshot exactly when bit en of
\* MISC1 is set, and then its value is bit st of the protection indicator
Reported(k, en, st) ==
    LET p == dec.num.protections IN
    /\ (k \in DOMAIN p) <=> Flag(dec.raw[8], en)
    /\ (k \in DOMAIN p) => (p[k] <=> Flag(dec.raw[2], st))

\* C37: in the snapshot of UP9512.get_measurements, for every value of MISC1
\* and of the protection indicator bytes, total_ocp, channel_ocl, ovp and
\* uvp are present exactly when bits 3, 2, 1 and 0 of MISC1 are set and then
\* equal bits 6, 5, 4 and 3 of the protection indicator; otp is always
\* present and equals bit 7; operating_phases is (indicator AND 7) + 1 and
\* lies in 1..8.
C37_ProtectionsFollowEnables ==
    (dec.pc = "done" /\ dec.dev = "UP9512" /\ dec.out = "data") =>
        /\ Reported("total_ocp", 3, 6)
        /\ Reported("channel_ocl", 2, 5)
        /\ Reported("ovp", 1, 4)
        /\ Reported("uvp", 0, 3)
        /\ "otp" \in DOMAIN dec.num.protections
        /\ dec.num.protections["otp"] <=> Flag(dec.raw[2], 7)
        /\ dec.num.phases = (dec.raw[2] % 8) + 1
        /\ dec.num.phases \in 1..8

\* a snapshot with channel OCL and UVP enabled only, and an indicator with
\* the total OCP, channel OCL and UVP bits set and phase field 2
C37_Witness ==
    /\ dec.pc = "done"
    /\ dec.dev = "UP9512"
    /\ dec.out = "data"
    /\ dec.raw[8] = 5
    /\ dec.raw[2] = 106
    /\ DOMAIN dec.num.protections = {"channel_ocl", "channel_ocl_status", "uvp", "otp"}
    /\ dec.num.protections["uvp"]
    /\ dec.num.phases = 3

\* C38: in every state between the calls of the one caller, after any
\* sequence of send_command, select_device, bulk_rw, get_devices and close
\* calls, is_active is true exactly when is_paused is false.
C38_ActiveIffNotPaused == is_active <=> ~is_paused

\* a select_device that resumed the bridge has returned, and close() after it
C38_Witness ==
    /\ op.name = "select"
    /\ op.pc = "done"
    /\ op.was_paused
    /\ cl.pc = "done"
    /\ is_active

\* C39: with two callers waiting concurrently for different actions, a
\* caller does not time out while the other caller holds, in its side list,
\* a message of the action it waits for that was taken off the queue before
\* its deadline.
C39_NoTimeoutWhileHeldAside ==
    [][\A c, d \in Callers :
          (c # d /\ w[c].pc = "loop" /\ w'[c].pc = "requeue_timeout"
                 /\ w[d].action # w[c].action)
              => \A i \in 1..Len(w[d].stored) :
                     ~(/\ w[d].stored[i].action = w[c].action
                       /\ w[d].aside_at[i] < w[c].start + w[c].timeout)]_vars

\* C40: the write lock is free whenever no send_command call is executing,
\* and is only ever held by a caller between its lock() and its unlock():
\* send_command releases it on every exit, also when the write raises, so a
\* failed write never blocks a later sender; when a write has failed, the
\* paused flag has already been set by a send_command that was entered.
C40_LockFreeOutsideSend ==
    /\ (\A t \in Callers : snd[t].pc \in {"idle", "done"}) => lock = 0
    /\ lock # 0 => (lock \in Callers /\ snd[lock].pc \in {"write", "in_write", "release"})
    /\ \A t \in Callers :
           (snd[t].raised /\ snd[t].pc \in {"release", "done"}) =>
               \E u \in Callers :
                   /\ snd[u].pc # "idle"
                   /\ is_paused = (snd[u].action = "pause")

\* the write of one caller's resume has failed and the call is over, the
\* paused flag is cleared all the same, and the other caller has written
\* its command after that
C40_Witness ==
    /\ snd[1].pc = "done"
    /\ snd[1].raised
    /\ snd[1].action = "resume"
    /\ snd[2].pc = "done"
    /\ ~snd[2].raised
    /\ snd[2].action = "resume"
    /\ ~is_paused
    /\ lock = 0
    /\ Len(sent) = 1

====
